---------------------------- MODULE Spec2Model ----------------------------
(***************************************************************************)
(* A model of nberlette/deno_fmt: the option resolution and canonical      *)
(* cache key (src/src/options.ts, src/src/context.ts), the LRU + TTL cache *)
(* (the lru.ts region of src/src/options.ts) and the two formatter         *)
(* contexts that sit in front of it (src/src/context.ts).                  *)
(*                                                                         *)
(* JavaScript values are tagged records [t |-> typeof, v |-> payload];     *)
(* a JavaScript object is the sequence of its <<key, value>> properties    *)
(* in insertion order.  The digest (Sha256, not part of the sources) is    *)
(* taken to be injective and is modelled as the byte stream it is fed.     *)
(***************************************************************************)
EXTENDS Naturals, Integers, Sequences, FiniteSets, TLC

VARIABLES
  cfgOpts,   \* Config.options handed to the Formatter (a partial object)
  instOpts,  \* Context.#config.options: the instance options
  res,       \* the last option-resolution / hashing call and its results
  lru,       \* the LRU instance: #map, #capacity, #timeout, #disposed
  now,       \* Date.now()
  last,      \* the last cache or formatter operation and what it did
  ctx,       \* the Context: backend type and cache configuration
  ghost,     \* history kept for the properties, not read by the program
  wasm,      \* the module backend: its plugins and the calls under way
  cmd        \* the process backend: the subprocesses of the calls under way

vars == <<cfgOpts, instOpts, res, lru, now, last, ctx, ghost, wasm, cmd>>

-----------------------------------------------------------------------------
(* JavaScript values and objects                                           *)

Num(n) == [t |-> "number", v |-> n]

Bool(b) == [t |-> "boolean", v |-> b]

Str(s) == [t |-> "string", v |-> s]

\* a number that is not an integer, by its decimal notation
Fraction(digits) == [t |-> "number", v |-> digits, fraction |-> TRUE]

IsInteger(val) == val.t = "number" /\ "fraction" \notin DOMAIN val

EmptyArray == [t |-> "object", v |-> "[]"]

Undefined == [t |-> "undefined", v |-> "undefined"]

TypeOf(val) == val.t

IsNullish(val) == val.t = "undefined"

EmptyObject == << >>

ObjKeys(o) == {o[i][1] : i \in DOMAIN o}

ObjHas(o, k) == k \in ObjKeys(o)

ObjIndex(o, k) == CHOOSE i \in DOMAIN o : o[i][1] = k

\* o[k]: undefined when o has no such property
ObjGet(o, k) == IF ObjHas(o, k) THEN o[ObjIndex(o, k)][2] ELSE Undefined

\* o[k] = v: an existing property keeps its place, a new one goes last
ObjPut(o, k, v) ==
  IF ObjHas(o, k)
    THEN [o EXCEPT ![ObjIndex(o, k)] = <<k, v>>]
    ELSE Append(o, <<k, v>>)

RECURSIVE ObjectAssign(_, _)
ObjectAssign(target, source) ==
  IF source = << >> THEN target
  ELSE ObjectAssign(ObjPut(target, Head(source)[1], Head(source)[2]),
                    Tail(source))

-----------------------------------------------------------------------------
(* Options                                                                 *)

OptionsDefault ==
  << <<"check", Bool(FALSE)>>, <<"config", Bool(TRUE)>>, <<"cwd", Str("")>>,
     <<"ext", Str("ts")>>, <<"ignore", EmptyArray>>,
     <<"indentWidth", Num(2)>>, <<"lineWidth", Num(80)>>,
     <<"proseWrap", Str("always")>>, <<"semiColons", Bool(TRUE)>>,
     <<"singleQuote", Bool(FALSE)>>, <<"useTabs", Bool(FALSE)>> >>

OptionKeys == ObjKeys(OptionsDefault)

\* Options[Symbol.hasInstance] on a plain object: every own property is a
\* key of Options.default whose typeof is that of the default ("config" may
\* also be a string)
OptionsHasInstance(it) ==
  \A i \in DOMAIN it :
    /\ it[i][1] \in OptionKeys
    /\ \/ (it[i][1] = "config" /\ TypeOf(it[i][2]) \in {"string", "boolean"})
       \/ TypeOf(it[i][2]) = TypeOf(ObjGet(OptionsDefault, it[i][1]))

\* Options.merge(options, fallbacks): options[key] ??= value for every entry
\* of fallbacks; a nullish property of options is filled where it stands, a
\* missing one is added after the others, in the order of fallbacks
OptionsMerge(options, fallbacks) ==
  LET filled == [i \in DOMAIN options |->
                   IF IsNullish(options[i][2])
                     THEN <<options[i][1], ObjGet(fallbacks, options[i][1])>>
                     ELSE options[i]]
      added == SelectSeq(fallbacks, LAMBDA e : ~ObjHas(options, e[1]))
  IN filled \o added

\* Options.allowed
AllowedExt == {"ts", "js", "jsx", "tsx", "json", "jsonc", "md"}

AllowedProseWrap == {"always", "never", "preserve"}

MinWidth == 1

MaxIndentWidth == 255

\* (2 ** 32) - 1 in the source; the largest integer there is here stands
\* for it, and no lineWidth used is anywhere near either
MaxLineWidth == 2147483647

IsBooleanLike(val) ==
  val.t = "boolean" \/ (val.t = "string" /\ val.v \in {"true", "false"})

\* the error of a width that is not an integer between min and max
WidthError(val, max) ==
  IF ~IsInteger(val) THEN "TypeError"
  ELSE IF val.v < MinWidth \/ val.v > max THEN "RangeError"
  ELSE ""

\* the tests of Options.normalize on options that have all their fields
\* (config, cwd and ignore pass for every value of theirs used here), in
\* the order they are made
NormalizeTests(options) ==
  <<IF ObjGet(options, "check").t = "boolean" THEN "" ELSE "TypeError",
    IF ObjGet(options, "ext").v \in AllowedExt THEN "" ELSE "TypeError",
    WidthError(ObjGet(options, "indentWidth"), MaxIndentWidth),
    WidthError(ObjGet(options, "lineWidth"), MaxLineWidth),
    IF IsBooleanLike(ObjGet(options, "semiColons")) THEN "" ELSE "TypeError",
    IF IsBooleanLike(ObjGet(options, "singleQuote")) THEN "" ELSE "TypeError",
    IF IsBooleanLike(ObjGet(options, "useTabs")) THEN "" ELSE "Error",
    IF ObjGet(options, "proseWrap").v \in AllowedProseWrap
      THEN "" ELSE "TypeError">>

\* Options.normalize(options): the error it throws, "" when it returns
OptionsNormalizeThrows(options) ==
  LET failed == SelectSeq(NormalizeTests(options), LAMBDA e : e # "")
  IN IF failed = << >> THEN "" ELSE Head(failed)

\* what the cwd setter (Options.sanitizePath) leaves of the default cwd
SanitizedCwd == Str("/")

\* Context constructor and Formatter constructor: the instance options are
\* new Options(Options.default) without Config.options, and otherwise
\* Config.options merged over the defaults, normalized and assigned through
\* the setters
ContextOptions(configOptions) ==
  IF configOptions = EmptyObject THEN OptionsDefault
  ELSE LET merged == OptionsMerge(configOptions, OptionsDefault)
       IN ObjectAssign(OptionsDefault,
            [i \in DOMAIN merged |->
               IF merged[i][1] = "cwd" THEN <<"cwd", SanitizedCwd>>
               ELSE merged[i]])

RECURSIVE FilterOptions(_)
FilterOptions(values) ==
  IF values = << >> THEN << >>
  ELSE IF OptionsHasInstance(Head(values))
         THEN <<Head(values)>> \o FilterOptions(Tail(values))
         ELSE FilterOptions(Tail(values))

RECURSIVE AssignAll(_, _)
AssignAll(target, sources) ==
  IF sources = << >> THEN target
  ELSE AssignAll(ObjectAssign(target, Head(sources)), Tail(sources))

MergeWritesFallbacks(options, fallbacks) == ObjectAssign(fallbacks, options)

\* what Options.merge(options, fallbacks) leaves of fallbacks: it assigns
\* to the properties of options only (options[key] ??= value)
MergeLeaves(options, fallbacks) == fallbacks

\* the instance options after a call with the rest arguments values:
\* parseInput, getCanonicalHash and the contexts' format hand this.options
\* to Options.merge as fallbacks, under an object made for the call
AfterCall(values, instance) ==
  MergeLeaves(AssignAll(EmptyObject, FilterOptions(values)), instance)

\* Context.parseInput(input, values): the options of the call
ParseInput(values, instance) ==
  LET overrides == AssignAll(EmptyObject, FilterOptions(values))
  IN OptionsMerge(overrides, instance)

-----------------------------------------------------------------------------
(* The canonical cache key                                                 *)

JSONValue(val) ==
  CASE val.t = "number" -> (IF IsInteger(val) THEN ToString(val.v) ELSE val.v)
    [] val.t = "boolean" -> (IF val.v THEN "true" ELSE "false")
    [] val.t = "string" -> "\"" \o val.v \o "\""
    [] OTHER -> val.v

RECURSIVE JSONMembers(_, _)
JSONMembers(o, first) ==
  IF o = << >> THEN ""
  ELSE IF IsNullish(Head(o)[2]) THEN JSONMembers(Tail(o), first)
  ELSE (IF first THEN "" ELSE ",")
         \o "\"" \o Head(o)[1] \o "\":" \o JSONValue(Head(o)[2])
         \o JSONMembers(Tail(o), FALSE)

\* JSON.stringify of a plain object: its defined properties in insertion
\* order
JSONStringify(o) == "{" \o JSONMembers(o, TRUE) \o "}"

\* the order Array.prototype.sort() gives the entries ("key,value" strings
\* compared by code unit): no option key is a prefix of another, so it is
\* the order of the keys
KeyOrder ==
  <<"check", "config", "cwd", "ext", "ignore", "indentWidth", "lineWidth",
    "proseWrap", "semiColons", "singleQuote", "useTabs">>

SortEntriesNoSort(o) == o

\* Object.fromEntries(Object.entries(canonical).sort()) of the parsed
\* JSON: the defined properties, by key
SortEntries(o) ==
  LET keys == SelectSeq(KeyOrder, LAMBDA k : ~IsNullish(ObjGet(o, k)))
  IN [i \in DOMAIN keys |-> <<keys[i], ObjGet(o, keys[i])>>]

getCanonicalHashTextOnly(data, options, instance) == data

\* Context.getCanonicalHash(data, options): the digest of the sorted JSON
\* of the merged options followed by the text
getCanonicalHash(data, options, instance) ==
  JSONStringify(SortEntries(OptionsMerge(options, instance))) \o data

-----------------------------------------------------------------------------
(* LRU (turtll): the cache                                                 *)

\* LRU constructor defaults
LRUDefaultCapacity == 100

LRUDefaultTimeout == 30000

\* a Map entry: key -> [value, time]
Entry(key, value, time) == [key |-> key, value |-> value, time |-> time]

\* the arguments a hook sees when Map.get(key) found nothing
AbsentValue == "<undefined>"

MapHas(map, key) == \E i \in DOMAIN map : map[i].key = key

MapIndex(map, key) == CHOOSE i \in DOMAIN map : map[i].key = key

MapGet(map, key) == map[MapIndex(map, key)]

\* Map.prototype.set: an existing key keeps its place in the iteration
\* order, a new key is appended
MapSet(map, key, value, time) ==
  IF MapHas(map, key)
    THEN [map EXCEPT ![MapIndex(map, key)] = Entry(key, value, time)]
    ELSE Append(map, Entry(key, value, time))

MapDelete(map, key) == SelectSeq(map, LAMBDA e : e.key # key)

NewLRU(capacity, timeout) ==
  [map |-> << >>, capacity |-> capacity, timeout |-> timeout,
   disposed |-> FALSE, pending |-> 0]

Miss == [hit |-> FALSE, value |-> AbsentValue]

Hit(value) == [hit |-> TRUE, value |-> value]

\* the outcome of one cache operation: the cache afterwards, what was
\* returned, the onremove and onrefresh calls made, and the error thrown
Outcome(c, ret, removed, refreshed, threw) ==
  [lru |-> c, ret |-> ret, removed |-> removed, refreshed |-> refreshed,
   threw |-> threw]

Disposed(c) == Outcome(c, Miss, << >>, << >>, "ReferenceError")

LRUGetNoRefresh(c, key, t) ==
  IF c.disposed THEN Disposed(c)
  ELSE IF ~MapHas(c.map, key) THEN Outcome(c, Miss, << >>, << >>, "")
  ELSE LET e == MapGet(c.map, key)
       IN IF t - e.time > c.timeout
            THEN Outcome([c EXCEPT !.map = MapDelete(c.map, key)], Miss,
                         <<e>>, << >>, "")
            ELSE Outcome(c, Hit(e.value), << >>, <<e>>, "")

LRUGetNeverExpires(c, key, t) ==
  IF c.disposed THEN Disposed(c)
  ELSE IF ~MapHas(c.map, key) THEN Outcome(c, Miss, << >>, << >>, "")
  ELSE LET e == MapGet(c.map, key)
       IN Outcome([c EXCEPT !.map = MapSet(c.map, key, e.value, t)],
                  Hit(e.value), << >>, <<e>>, "")

\* LRU.get(key)
LRUGet(c, key, t) ==
  IF c.disposed THEN Disposed(c)
  ELSE IF ~MapHas(c.map, key) THEN Outcome(c, Miss, << >>, << >>, "")
  ELSE LET e == MapGet(c.map, key)
       IN IF t - e.time > c.timeout
            THEN Outcome([c EXCEPT !.map = MapDelete(c.map, key)], Miss,
                         <<e>>, << >>, "")
            ELSE Outcome([c EXCEPT !.map = MapSet(c.map, key, e.value, t)],
                         Hit(e.value), << >>, <<e>>, "")

LRUSetIgnoresCapacity(c, key, value, t) ==
  IF c.disposed THEN Disposed(c)
  ELSE Outcome([c EXCEPT !.map = MapSet(c.map, key, value, t)], Miss,
               << >>, << >>, "")

\* LRU.set(key, value): the first entry is evicted when the map is full and
\* that entry's key is truthy (entry && entry[0] && entry[1])
LRUSet(c, key, value, t) ==
  IF c.disposed THEN Disposed(c)
  ELSE IF c.capacity <= 0 THEN Outcome(c, Miss, << >>, << >>, "")
  ELSE LET full == Len(c.map) >= c.capacity
           evict == full /\ c.map # << >> /\ Head(c.map).key # ""
           kept == IF evict THEN Tail(c.map) ELSE c.map
       IN Outcome([c EXCEPT !.map = MapSet(kept, key, value, t)], Miss,
                  IF evict THEN <<Head(c.map)>> ELSE << >>, << >>, "")

\* LRU.delete(key): onremove is called whether or not the key is there
LRUDelete(c, key) ==
  IF c.disposed THEN Disposed(c)
  ELSE LET had == MapHas(c.map, key)
           e == IF had THEN MapGet(c.map, key)
                ELSE Entry(key, AbsentValue, -1)
       IN Outcome([c EXCEPT !.map = MapDelete(c.map, key)],
                  [hit |-> had, value |-> e.value], <<e>>, << >>, "")

\* LRU.clear()
LRUClear(c) == Outcome([c EXCEPT !.map = << >>], Miss, << >>, << >>, "")

RECURSIVE PruneLoop(_, _, _, _)
PruneLoop(c, todo, t, removed) ==
  IF todo = << >> THEN Outcome(c, Miss, removed, << >>, "")
  ELSE LET e == Head(todo)
       IN IF (t - e.time > c.timeout) \/ (Len(c.map) >= c.capacity)
            THEN IF c.disposed
                   THEN Outcome(c, Miss, removed, << >>, "ReferenceError")
                   ELSE PruneLoop([c EXCEPT !.map = MapDelete(c.map, e.key)],
                                  Tail(todo), t, Append(removed, e))
            ELSE PruneLoop(c, Tail(todo), t, removed)

\* LRU.#prune(): every entry, in order, is deleted when it is expired or
\* when the map is, at that moment, at or over capacity
LRUPrune(c, t) == PruneLoop(c, c.map, t, << >>)

\* set capacity(capacity)
LRUSetCapacity(c, capacity, t) ==
  LRUPrune([c EXCEPT !.capacity = capacity], t)

\* set timeout(timeout)
LRUSetTimeout(c, timeout, t) ==
  LRUPrune([c EXCEPT !.timeout = timeout], t)

\* LRU.entries() (and keys, values, [Symbol.iterator]) run to the end
LRUEntries(c, t) == LRUPrune(c, t)

\* LRU[Symbol.dispose]() on a cache that is not disposed
LRUDispose(c) == [c EXCEPT !.disposed = TRUE, !.map = << >>]

\* LRU[Symbol.asyncDispose](): the part before the await of ondispose()
LRUAsyncDisposeBegin(c) == [c EXCEPT !.pending = c.pending + 1]

\* LRU[Symbol.asyncDispose](): the part after the await
LRUAsyncDisposeEnd(c) ==
  [c EXCEPT !.pending = c.pending - 1, !.map = << >>, !.disposed = TRUE]

-----------------------------------------------------------------------------
(* Bounds and inputs of the cache                                          *)

MaxCap == 2

MaxTimeout == 1

MaxTime == 2

MaxPending == 2

Keys == {"", "a", "b"}

Values == {"v", "w"}

Capacities == 0..MaxCap

Timeouts == 0..MaxTimeout

-----------------------------------------------------------------------------
(* What the properties look at: the last call and the history              *)

\* what the backend does when it is run: the answer to the permission
\* request, then the subprocess's exit code, stdout (text) and stderr
\* (message), or the plugin's response code with its formatted text or
\* its error text
Run(permission, code, status, text, message) ==
  [permission |-> permission, code |-> code, status |-> status,
   text |-> text, message |-> message]

NoRun == Run("", 0, 0, "", "")

\* what a Formatter call did besides returning: whether it requested the
\* run permission (asked) and read the cache (looked), the text and the
\* check option it was called with, what it saw of the backend, what the
\* error it threw carries (its cause, the resolved options), and the rest
\* arguments of the call with the options parseInput resolved from them
NoFmt ==
  [asked |-> FALSE, looked |-> FALSE, input |-> "", check |-> FALSE,
   run |-> NoRun, cause |-> AbsentValue, options |-> FALSE,
   values |-> << >>, resolved |-> << >>]

Call(op, key, o, invoked) ==
  [op |-> op, key |-> key, ret |-> o.ret, removed |-> o.removed,
   refreshed |-> o.refreshed, threw |-> o.threw, invoked |-> invoked,
   fmt |-> NoFmt, n |-> 0]

NoCall == Call("none", "", Outcome(<< >>, Miss, << >>, << >>, ""), FALSE)

\* a call that repeats the call before it, outcome and all, is told apart
\* from it by n
Stamp(call) ==
  IF call = [last EXCEPT !.n = 0] THEN [call EXCEPT !.n = 1 - last.n]
  ELSE call

NoPrev == [key |-> "", ret |-> Miss, time |-> 0, set |-> FALSE]

\* a call on the module backend: the family it is for, the dprint instance
\* it used and whether it made it, the exports of the module it called and
\* the strings it sent, in order, what the module answered and what the
\* call returned or threw; override tells whether it was given an
\* overrideConfig
Exported(op, family, plugin, created, trace, run, ret, threw) ==
  [op |-> op, family |-> family, plugin |-> plugin, created |-> created,
   trace |-> trace, run |-> run, ret |-> ret, threw |-> threw,
   override |-> FALSE]

NoExport == Exported("none", "", 0, FALSE, << >>, NoRun, AbsentValue, "")

\* a module backend that is not looked at
NoModules ==
  [plugins |-> << >>, version |-> << >>, made |-> << >>, pending |-> << >>,
   call |-> NoExport]

NoHistory ==
  [order |-> << >>, lastSet |-> 0, pure |-> FALSE, sets |-> << >>,
   evicted |-> << >>, ondispose |-> 0, prev |-> NoPrev]

NewHistory == [NoHistory EXCEPT !.pure = TRUE]

KeysOf(entries) == [i \in DOMAIN entries |-> entries[i].key]

Range(seq) == {seq[i] : i \in DOMAIN seq}

\* the history after a cache operation: the keys present, in the order of
\* the set that put them there; the time of the last set that stored an
\* entry; as long as nothing but set with fresh keys has been called, the
\* keys set and the keys handed to onremove; the number of ondispose calls
Track(g, op, key, o, t, disposals) ==
  LET gone == Range(KeysOf(o.removed))
      here == Range(KeysOf(o.lru.map))
      kept == SelectSeq(g.order, LAMBDA k : k \in here \ gone)
      order == IF key \in here /\ key \notin Range(kept)
                 THEN Append(kept, key)
                 ELSE kept
      pure == g.pure /\ op = "set" /\ key \notin Range(g.sets)
                /\ o.threw = ""
  IN [g EXCEPT !.order = order, !.pure = pure,
               !.lastSet = IF op = "set" /\ key \in here THEN t ELSE @,
               !.sets = IF pure THEN Append(g.sets, key) ELSE << >>,
               !.evicted = IF pure THEN g.evicted \o KeysOf(o.removed)
                           ELSE << >>,
               !.ondispose = @ + disposals]

\* an option-resolution or hashing call and its results
Resolved(op, text, values, options, hash) ==
  [op |-> op, text |-> text, values |-> values, options |-> options,
   hash |-> hash]

NoRes == Resolved("none", "", << >>, << >>, "")

Standalone == ctx.type = "none"

Step(op, key, o, disposals) ==
  \E did \in {o} :
    /\ lru' = did.lru
    /\ last' = Stamp(Call(op, key, did, FALSE))
    /\ ghost' = Track(ghost, op, key, did, now, disposals)
    /\ UNCHANGED <<cfgOpts, instOpts, res, now, ctx, wasm, cmd>>

Apply(op, key, o) == Step(op, key, o, 0)

Done(c) == Outcome(c, Miss, << >>, << >>, "")

-----------------------------------------------------------------------------
(* The cache on its own                                                    *)

InitLRU ==
  /\ cfgOpts = EmptyObject
  /\ instOpts = EmptyObject
  /\ res = NoRes
  /\ ctx = [type |-> "none", cache |-> Undefined, disposed |-> FALSE]
  /\ \E capacity \in Capacities, timeout \in Timeouts :
       lru = NewLRU(capacity, timeout)
  /\ now = 0
  /\ last = NoCall
  /\ ghost = NewHistory
  /\ wasm = NoModules
  /\ cmd = << >>

Get(key) == Standalone /\ Apply("get", key, LRUGet(lru, key, now))

Set(key, value) ==
  Standalone /\ Apply("set", key, LRUSet(lru, key, value, now))

Delete(key) == Standalone /\ Apply("delete", key, LRUDelete(lru, key))

Clear == Standalone /\ Apply("clear", "", LRUClear(lru))

\* a capacity the setter rejects (RangeError) leaves the cache as it is
SetCapacity(capacity) ==
  /\ Standalone
  /\ Apply("capacity", "",
           IF capacity < 0
             THEN Outcome(lru, Miss, << >>, << >>, "RangeError")
             ELSE LRUSetCapacity(lru, capacity, now))

SetTimeout(timeout) ==
  /\ Standalone
  /\ Apply("timeout", "",
           IF timeout < 0
             THEN Outcome(lru, Miss, << >>, << >>, "RangeError")
             ELSE LRUSetTimeout(lru, timeout, now))

Entries == Standalone /\ Apply("entries", "", LRUEntries(lru, now))

DisposeAgain ==
  /\ Standalone
  /\ Step("dispose", "", Done(LRUDispose(lru)), 1)

\* [Symbol.dispose]()
Dispose ==
  /\ Standalone
  /\ IF lru.disposed THEN Step("dispose", "", Done(lru), 0)
     ELSE Step("dispose", "", Done(LRUDispose(lru)), 1)

\* asyncDispose awaited with nothing else running in between
AsyncDispose ==
  /\ Standalone
  /\ lru.pending = 0
  /\ IF lru.disposed THEN Step("asyncDispose", "", Done(lru), 0)
     ELSE Step("asyncDispose", "",
               Done(LRUAsyncDisposeEnd(LRUAsyncDisposeBegin(lru))), 1)

\* asyncDispose up to its await of ondispose()
AsyncDisposeBegin ==
  /\ Standalone
  /\ ~lru.disposed
  /\ lru.pending < MaxPending
  /\ Step("asyncDisposeBegin", "", Done(LRUAsyncDisposeBegin(lru)), 1)

\* asyncDispose resumed after the await
AsyncDisposeEnd ==
  /\ Standalone
  /\ lru.pending > 0
  /\ Step("asyncDisposeEnd", "", Done(LRUAsyncDisposeEnd(lru)), 0)

Tick ==
  /\ now < MaxTime
  /\ now' = now + 1
  /\ last' = NoCall
  /\ UNCHANGED <<cfgOpts, instOpts, res, lru, ctx, ghost, wasm, cmd>>

NextLRU ==
  \/ \E key \in Keys : Get(key)
  \/ \E key \in Keys, value \in Values : Set(key, value)
  \/ \E key \in Keys : Delete(key)
  \/ Clear
  \/ \E capacity \in Capacities \cup {-1} : SetCapacity(capacity)
  \/ \E timeout \in Timeouts \cup {-1} : SetTimeout(timeout)
  \/ Entries
  \/ Dispose
  \/ AsyncDispose
  \/ Tick

SpecLRU == InitLRU /\ [][NextLRU]_vars

\* the cache with disposals that overlap
NextDispose ==
  \/ \E key \in Keys : Get(key)
  \/ \E key \in Keys, value \in Values : Set(key, value)
  \/ \E key \in Keys : Delete(key)
  \/ Clear
  \/ Dispose
  \/ AsyncDisposeBegin
  \/ AsyncDisposeEnd

SpecDispose == InitLRU /\ [][NextDispose]_vars

-----------------------------------------------------------------------------
(* The Context in front of the cache                                       *)

OrElse(val, default) == IF IsNullish(val) THEN default ELSE val.v

\* Context.cache: Config.cache false disables the cache, true and an
\* absent Config.cache give the LRU defaults, and an object is handed to
\* new LRU(config) as it is (LRU reads capacity and timeout, not ttl)
ContextCache(cache) ==
  LET config ==
        IF cache.t = "boolean"
          THEN IF cache.v THEN << <<"capacity", Num(100)>>,
                                  <<"ttl", Num(1800000)>> >>
               ELSE << <<"capacity", Num(0)>>, <<"ttl", Num(0)>> >>
        ELSE IF cache.t = "object" THEN cache.v
        ELSE EmptyObject
  IN NewLRU(OrElse(ObjGet(config, "capacity"), LRUDefaultCapacity),
            OrElse(ObjGet(config, "timeout"), LRUDefaultTimeout))

CacheConfig(capacity, ttl) ==
  [t |-> "object",
   v |-> << <<"capacity", Num(capacity)>>, <<"ttl", Num(ttl)>> >>]

\* what a format call did: the cache afterwards, the string returned or
\* the error thrown, the hooks called, whether the backend ran, whether
\* the run permission was requested and the cache read, and what the error
\* carries
Formatted(o, ret, threw, removed, invoked) ==
  [lru |-> o.lru, ret |-> ret, removed |-> removed,
   refreshed |-> o.refreshed, threw |-> threw, invoked |-> invoked,
   asked |-> FALSE, looked |-> TRUE, cause |-> AbsentValue,
   options |-> FALSE]

\* err.message.startsWith("Unexpected ")
StartsWithUnexpected(message) ==
  message \in {"Unexpected token", "Unexpected response code"}

PluginFormatLenient(input, run) ==
  CASE run.status = 1 -> [text |-> run.text, threw |-> ""]
    [] run.status = 2 -> [text |-> "", threw |-> run.message]
    [] OTHER -> [text |-> input, threw |-> ""]

\* dprint.Formatter.formatText: the plugin's answer by response code
PluginFormat(input, run) ==
  CASE run.status = 0 -> [text |-> input, threw |-> ""]
    [] run.status = 1 -> [text |-> run.text, threw |-> ""]
    [] run.status = 2 -> [text |-> "", threw |-> run.message]
    [] OTHER -> [text |-> "", threw |-> "Unexpected response code"]

Threw(c, error) ==
  [Formatted(Disposed(c), Miss, error, << >>, FALSE) EXCEPT !.looked = FALSE]

\* WasmContext.format and formatSync, past disposedCheck: merged is a
\* constructed Options, so that getCanonicalHash (JSON.stringify calls its
\* toJSON, which is normalize) throws for a value normalize rejects; then
\* the backend runs when the cached value is falsy (if (!cached))
WasmFormat(c, hash, input, options, t, run) ==
  LET g == LRUGet(c, hash, t)
  IN IF OptionsNormalizeThrows(options) # ""
       THEN Threw(c, OptionsNormalizeThrows(options))
     ELSE IF g.threw # "" THEN Formatted(g, Miss, g.threw, g.removed, FALSE)
     ELSE IF g.ret.hit /\ g.ret.value # ""
       THEN Formatted(g, g.ret, "", g.removed, FALSE)
     ELSE LET out == PluginFormat(input, run)
          IN IF out.threw # ""
               THEN IF StartsWithUnexpected(out.threw)
                      THEN Formatted(g, Hit(input), "", g.removed, TRUE)
                      ELSE Formatted(g, Miss, out.threw, g.removed, TRUE)
               ELSE LET w == LRUSet(g.lru, hash, out.text, t)
                    IN [Formatted(g, Hit(out.text), "",
                                  g.removed \o w.removed, TRUE)
                          EXCEPT !.lru = w.lru]

\* stdout.startsWith("Checked ")
StartsWithChecked(stream) == stream \in {"Checked 1 file"}

\* the regular expression of #hasErrors: a line that starts with "error:"
\* or with "Not formatted"
MatchesErrorLine(stream) ==
  stream \in {"error: Found 1 not formatted file", "Not formatted stdin",
              "error: Unexpected token"}

\* CommandContext.#hasErrors
HasErrors(stream) == ~StartsWithChecked(stream) /\ MatchesErrorLine(stream)

\* the cause of the error thrown for a non-zero exit: stderr when it is
\* non-empty and has errors, else stdout when it is and has, else none
Cause(stdout, stderr) ==
  IF stderr # "" /\ HasErrors(stderr) THEN stderr
  ELSE IF stdout # "" /\ HasErrors(stdout) THEN stdout
  ELSE AbsentValue

CommandFormatCachesFailure(c, hash, input, options, t, run) ==
  LET g == LRUGet(c, hash, t)
      w == LRUSet(g.lru, hash, run.text, t)
  IN IF g.threw # "" THEN Formatted(g, Miss, g.threw, g.removed, FALSE)
     ELSE IF g.ret.hit THEN Formatted(g, g.ret, "", g.removed, FALSE)
     ELSE [Formatted(g, IF run.code # 0 THEN Miss ELSE Hit(run.text),
                     IF run.code # 0 THEN "Error" ELSE "",
                     g.removed \o w.removed, TRUE)
             EXCEPT !.lru = w.lru]

\* CommandContext.format and formatSync, past the permission request and
\* disposedCheck: the backend runs when nothing is cached
\* (output === undefined), after convertToFlags has normalized the options;
\* a non-zero exit throws an Error that has the cause and, assigned to it,
\* commandOptions, options and context
CommandFormat(c, hash, input, options, t, run) ==
  LET g == LRUGet(c, hash, t)
  IN IF g.threw # "" THEN Formatted(g, Miss, g.threw, g.removed, FALSE)
     ELSE IF g.ret.hit THEN Formatted(g, g.ret, "", g.removed, FALSE)
     ELSE IF OptionsNormalizeThrows(options) # ""
       THEN Formatted(g, Miss, OptionsNormalizeThrows(options), g.removed,
                      FALSE)
     ELSE IF run.code # 0
       THEN [Formatted(g, Miss, "Error", g.removed, TRUE)
               EXCEPT !.cause = Cause(run.text, run.message),
                      !.options = TRUE]
     ELSE LET w == LRUSet(g.lru, hash, run.text, t)
          IN [Formatted(g, Hit(run.text), "", g.removed \o w.removed, TRUE)
                EXCEPT !.lru = w.lru]

\* the key of a format call: parseInput resolves the options of the call,
\* getCanonicalHash digests them with the text
HashOf(instance, input, values) ==
  getCanonicalHash(input, ParseInput(values, instance), instance)

ContextFormatAsksOnMiss(context, c, hash, input, options, t, run) ==
  IF context.disposed THEN Threw(c, "ReferenceError")
  ELSE IF context.type = "wasm"
    THEN WasmFormat(c, hash, input, options, t, run)
  ELSE IF run.permission # "granted" /\ ~LRUGet(c, hash, t).ret.hit
    THEN [Threw(c, "PermissionDenied") EXCEPT !.asked = TRUE]
  ELSE [CommandFormat(c, hash, input, options, t, run) EXCEPT !.asked = TRUE]

\* Formatter.format / formatSync on a context: disposedCheck, the key of
\* the call (hash), then the context's format (for the process backend the
\* permission request comes first)
ContextFormat(context, c, hash, input, options, t, run) ==
  IF context.disposed THEN Threw(c, "ReferenceError")
  ELSE IF context.type = "wasm"
    THEN WasmFormat(c, hash, input, options, t, run)
  ELSE IF run.permission # "granted"
    THEN [Threw(c, "PermissionDenied") EXCEPT !.asked = TRUE]
  ELSE [CommandFormat(c, hash, input, options, t, run) EXCEPT !.asked = TRUE]

\* the booleans check returns
True == "<true>"

False == "<false>"

IsTrue(val) == val.t = "boolean" /\ val.v

\* Context.check / checkSync (the process backend has no other):
\* (await this.format(input, overrides)) === input
ContextCheck(f, input) ==
  IF f.threw # "" THEN f
  ELSE [f EXCEPT !.ret = Hit(IF f.ret.value = input THEN True ELSE False)]

\* what Options.merge returns has the methods of Options when its first
\* argument is a constructed Options, or when the merged object fails
\* `options instanceof Options` (a test of shape, by Symbol.hasInstance) and
\* is handed to new Options(options); otherwise it is the plain object
MergeGivesInstance(options, constructed, fallbacks) ==
  constructed \/ ~OptionsHasInstance(OptionsMerge(options, fallbacks))

\* dprint.Formatter.checkText: the plugin's answer by response code
PluginCheck(run) ==
  CASE run.status = 0 -> [ret |-> True, threw |-> ""]
    [] run.status = 1 -> [ret |-> False, threw |-> ""]
    [] run.status = 2 -> [ret |-> "", threw |-> run.message]
    [] OTHER -> [ret |-> "", threw |-> "Unexpected response code"]

\* WasmContext.check and checkSync, past disposedCheck, called with the
\* overrides object that parseInput made: merged.toDprint() is a TypeError
\* when merged is a plain object; the cache is not used
WasmCheck(c, overrides, instance, run) ==
  IF ~MergeGivesInstance(overrides, FALSE, instance)
    THEN Threw(c, "TypeError")
  ELSE LET out == PluginCheck(run)
           did == [Threw(c, out.threw) EXCEPT !.invoked = TRUE]
       IN IF out.threw = "" THEN [did EXCEPT !.ret = Hit(out.ret)]
          ELSE IF StartsWithUnexpected(out.threw)
            THEN [did EXCEPT !.ret = Hit(False), !.threw = ""]
          ELSE did

\* Formatter.check / checkSync: disposedCheck, parseInput (options are its
\* result, hash the key the process backend's format will use), then the
\* context's check
FormatterCheck(context, c, instance, hash, input, options, t, run) ==
  IF context.disposed THEN Threw(c, "ReferenceError")
  ELSE IF context.type = "wasm" THEN WasmCheck(c, options, instance, run)
  ELSE ContextCheck(ContextFormat(context, c, hash, input, options, t, run),
                    input)

\* Formatter.format / formatSync: disposedCheck, parseInput, then
\* this.check(code, options) when options.check is set, and the context's
\* format otherwise
FormatterFormat(context, c, instance, hash, input, options, t, run) ==
  IF context.disposed THEN Threw(c, "ReferenceError")
  ELSE IF IsTrue(ObjGet(options, "check"))
    THEN FormatterCheck(context, c, instance, hash, input,
                        ParseInput(<<options>>, instance), t, run)
  ELSE ContextFormat(context, c, hash, input, options, t, run)

-----------------------------------------------------------------------------
(* The formatter: format calls against either backend                      *)

Texts == {"", "x"}

Outputs == {"", "y"}

WideLines == << <<"lineWidth", Num(100)>> >>

CheckMode == << <<"check", Bool(TRUE)>> >>

\* the calls made: a text with its rest arguments
Inputs == {<<"", << >> >>, <<"x", <<WideLines>> >>}

\* a call of format in check mode
CheckInputs == {<<"x", <<CheckMode>> >>}

SmallCapacity == 1

SmallTTL == 5

CacheConfigs ==
  {Bool(FALSE), Bool(TRUE), CacheConfig(SmallCapacity, SmallTTL)}

\* the backends' behaviours: for the process, permission denied, a
\* non-zero exit (silent, "Not formatted" on stderr, the error on stdout
\* under a "Checked" stderr, a stderr without a known line) or exit 0 with
\* the formatted text; for the plugin, the response codes 0, 1 (with the
\* formatted text), 2 (with the error text) and another one
Runs(type) ==
  IF type = "cli"
    THEN {Run("denied", 0, 0, "", ""), Run("granted", 1, 0, "", ""),
          Run("granted", 1, 0, "", "Not formatted stdin"),
          Run("granted", 1, 0, "error: Found 1 not formatted file",
              "Checked 1 file"),
          Run("granted", 1, 0, "", "Killed")}
           \cup {Run("granted", 0, 0, text, "") : text \in Outputs}
    ELSE {Run("granted", 0, 0, "", ""), Run("granted", 0, 3, "", "")}
           \cup {Run("granted", 0, 1, text, "") : text \in Outputs}
           \cup {Run("granted", 0, 2, "", message) :
                   message \in {"Unexpected token", "failed"}}

InitFmt ==
  /\ cfgOpts \in {EmptyObject, WideLines}
  /\ instOpts = ContextOptions(cfgOpts)
  /\ res = NoRes
  /\ \E type \in {"cli", "wasm"}, cache \in CacheConfigs :
       /\ ctx = [type |-> type, cache |-> cache, disposed |-> FALSE]
       /\ lru = ContextCache(cache)
  /\ now = 0
  /\ last = NoCall
  /\ ghost = NoHistory
  /\ wasm = NoModules
  /\ cmd = << >>

FormatOps == {"format", "formatSync"}

CheckOps == {"check", "checkSync"}

\* the history after a Formatter call: the call, when it was a format call
\* outside check mode
Recall(g, call, t) ==
  [g EXCEPT !.prev = IF call.op \in FormatOps /\ ~call.fmt.check
                       THEN [key |-> call.key, ret |-> call.ret,
                             time |-> t, set |-> TRUE]
                       ELSE NoPrev]

\* what a call saw of the backend: the answer to the permission request
\* when it asked, the rest when it ran the backend
Seen(run, asked, invoked) ==
  Run(IF asked THEN run.permission ELSE "",
      IF invoked THEN run.code ELSE 0,
      IF invoked THEN run.status ELSE 0,
      IF invoked THEN run.text ELSE "",
      IF invoked THEN run.message ELSE "")

\* the record of a Formatter call
Made(op, hash, input, values, options, did, run) ==
  [Call(op, hash, did, did.invoked) EXCEPT
     !.fmt = [asked |-> did.asked, looked |-> did.looked, input |-> input,
              check |-> IsTrue(ObjGet(options, "check")),
              run |-> Seen(run, did.asked, did.invoked),
              cause |-> did.cause, options |-> did.options,
              values |-> values, resolved |-> options]]

\* one call of format, formatSync, check or checkSync, whatever the
\* backend then does (run); in check mode format hands the options it
\* resolved to check, which resolves them again
FormatCall(op, input, values) ==
  /\ ~Standalone
  /\ \E options \in {ParseInput(values, instOpts)} :
       \E hash \in {IF op \in FormatOps /\ IsTrue(ObjGet(options, "check"))
                      THEN HashOf(instOpts, input, <<options>>)
                      ELSE getCanonicalHash(input, options, instOpts)} :
         \E run \in Runs(ctx.type) :
           \E did \in {IF op \in CheckOps
                         THEN FormatterCheck(ctx, lru, instOpts, hash, input,
                                             options, now, run)
                         ELSE FormatterFormat(ctx, lru, instOpts, hash, input,
                                              options, now, run)} :
             \E made \in {Stamp(Made(op, hash, input, values, options, did,
                                        run))} :
               /\ lru' = did.lru
               /\ last' = made
               /\ ghost' = Recall(ghost, made, now)
  /\ instOpts' = AfterCall(values, instOpts)
  /\ UNCHANGED <<cfgOpts, res, now, ctx, wasm, cmd>>

Format(input, values) == FormatCall("format", input, values)

FormatSync(input, values) == FormatCall("formatSync", input, values)

Check(input, values) == FormatCall("check", input, values)

CheckSync(input, values) == FormatCall("checkSync", input, values)

ContextSetDisposedAnyway(context, value) == [context EXCEPT !.disposed = value]

\* set disposed(value): if (!this.#disposed) this.#disposed = !!value
ContextSetDisposed(context, value) ==
  IF context.disposed THEN context ELSE [context EXCEPT !.disposed = value]

\* a step of the formatter that is not a format or check call
Other(op, context) ==
  /\ ~Standalone
  /\ ctx' = context
  /\ last' = Stamp(Call(op, "", Done(lru), FALSE))
  /\ ghost' = [ghost EXCEPT !.prev = NoPrev]
  /\ UNCHANGED <<cfgOpts, instOpts, res, lru, now, wasm, cmd>>

\* Formatter[Symbol.dispose](): the cleanup hook, then context.disposed = true
DisposeFormatter ==
  Other("disposeFormatter",
        IF ~ctx.disposed THEN ContextSetDisposed(ctx, TRUE) ELSE ctx)

\* formatter.context.disposed = value
AssignDisposed(value) == Other("disposed", ContextSetDisposed(ctx, value))

\* the formatter is left alone for longer than the timeout of its cache
Idle ==
  /\ ~Standalone
  /\ now <= MaxTime
  /\ lru.map # << >>
  /\ now' = now + lru.timeout + 1
  /\ last' = NoCall
  /\ UNCHANGED <<cfgOpts, instOpts, res, lru, ctx, ghost, wasm, cmd>>

NextFmt ==
  \/ \E in \in Inputs : Format(in[1], in[2])
  \/ \E in \in Inputs : FormatSync(in[1], in[2])
  \/ Tick

SpecFmt == InitFmt /\ [][NextFmt]_vars

\* the formatter with all of its calls: format (in check mode too),
\* check, and disposal
NextFormatter ==
  \/ \E in \in Inputs \cup CheckInputs : Format(in[1], in[2])
  \/ \E in \in Inputs \cup CheckInputs : FormatSync(in[1], in[2])
  \/ \E in \in Inputs : Check(in[1], in[2])
  \/ \E in \in Inputs : CheckSync(in[1], in[2])
  \/ DisposeFormatter
  \/ \E value \in BOOLEAN : AssignDisposed(value)

SpecFormatter == InitFmt /\ [][NextFormatter]_vars

\* the calls that use the cache, with pauses long enough for its entries
\* to expire
NextCaching ==
  \/ \E in \in Inputs : Format(in[1], in[2])
  \/ \E in \in Inputs : FormatSync(in[1], in[2])
  \/ \E in \in Inputs : Check(in[1], in[2])
  \/ \E in \in Inputs : CheckSync(in[1], in[2])
  \/ Idle

SpecCaching == InitFmt /\ [][NextCaching]_vars

\* calls with overrides among calls without, for the same text
NextOverrides ==
  \/ \E values \in {<< >>, <<WideLines>>} : Format("x", values)
  \/ FormatSync("x", <<WideLines>>)
  \/ Check("x", <<WideLines>>)
  \/ CheckSync("x", <<WideLines>>)

SpecOverrides == InitFmt /\ [][NextOverrides]_vars

\* a text formatted, and what it is formatted to formatted again and
\* checked with the check option
RoundTrips == {<<"x", << >> >>, <<"y", << >> >>, <<"y", <<CheckMode>> >>}

NextRoundTrip ==
  \/ \E call \in RoundTrips : Format(call[1], call[2])
  \/ \E call \in RoundTrips : FormatSync(call[1], call[2])

SpecRoundTrip == InitFmt /\ [][NextRoundTrip]_vars

\* overrides with a value Options.normalize rejects: an indentWidth out
\* of range, a lineWidth that is not an integer, an unknown ext, an unknown
\* proseWrap, and an indentWidth that is not a number
InvalidOverrides ==
  {<< <<"indentWidth", Num(0)>> >>, << <<"lineWidth", Fraction("1.5")>> >>,
   << <<"ext", Str("xyz")>> >>, << <<"proseWrap", Str("bogus")>> >>,
   << <<"indentWidth", Str("4")>> >>}

InvalidInputs == {<<"x", <<o>> >> : o \in InvalidOverrides}

\* the calls with valid and with invalid option values
NextValidation ==
  \/ \E in \in {<<"x", << >> >>} \cup InvalidInputs : Format(in[1], in[2])
  \/ \E in \in InvalidInputs : FormatSync(in[1], in[2])
  \/ \E in \in InvalidInputs : Check(in[1], in[2])
  \/ \E in \in InvalidInputs : CheckSync(in[1], in[2])

SpecValidation == InitFmt /\ [][NextValidation]_vars

-----------------------------------------------------------------------------
(* The module backend: the dprint instances and WasmContext.#plugins       *)

\* two of the four families of #extMap
Families == {"typescript", "json"}

SchemaVersions == {1, 2, 3, 4}

MaxInstances == 2

MaxPendingCalls == 2

MaxSetConfig == 1

\* a dprint instance: the schema version of its module, #configSet, and,
\* on the module's side, how often it was sent the global and the plugin
\* configuration (setConfig counts the explicit calls of setConfig)
NewDprint(id, version) ==
  [id |-> id, version |-> version, configSet |-> FALSE, global |-> 0,
   plugin |-> 0, setConfig |-> 0]

\* #plugins[key] is undefined
NoPlugin == NewDprint(0, 0)

\* the message of the error the dprint constructor throws
Incompatible == "Incompatible plugin"

CompatibleAlways(version) == version \in SchemaVersions

\* the dprint constructor returns for these schema versions and throws
\* for any other
Compatible(version) == version \in {2, 3}

\* what a method of dprint did: the instance afterwards, the exports
\* called, the value returned, the error thrown
Did(p, trace, ret, threw) ==
  [plugin |-> p, trace |-> trace, ret |-> ret, threw |-> threw]

\* dprint.setConfig(globalConfig, pluginConfig)
DprintSetConfig(p) ==
  Did([p EXCEPT !.configSet = TRUE, !.global = @ + 1, !.plugin = @ + 1],
      <<"set_global_config", "set_plugin_config">>, AbsentValue, "")

SetConfigAlways(p) == DprintSetConfig(p)

\* dprint.setConfigIfNotSet()
SetConfigIfNotSet(p) ==
  IF p.configSet THEN Did(p, << >>, AbsentValue, "") ELSE DprintSetConfig(p)

\* what formatText and checkText fetch after the module's format(), by the
\* response code
Fetched(check, status) ==
  IF status = 2 THEN <<"get_error_text">>
  ELSE IF status = 1 /\ ~check THEN <<"get_formatted_text">>
  ELSE << >>

\* the message of the error for an overrideConfig on an old plugin
OldPlugin == "Cannot set the override configuration"

DprintTextPathFirst(p, check, text, override, run) ==
  LET set == SetConfigIfNotSet(p)
      out == IF check
               THEN PluginCheck(run)
               ELSE [ret |-> PluginFormat(text, run).text,
                     threw |-> PluginFormat(text, run).threw]
      path == <<"sendString(filePath)", "set_file_path">>
  IN IF override /\ p.version = 2
       THEN Did(set.plugin, set.trace \o path, AbsentValue, OldPlugin)
     ELSE Did(set.plugin,
              set.trace \o path
                \o (IF override
                      THEN <<"sendString(overrideConfig)",
                             "set_override_config">>
                      ELSE << >>)
                \o <<"sendString(fileText)", "format">>
                \o Fetched(check, run.status),
              IF out.threw = "" THEN out.ret ELSE AbsentValue, out.threw)

\* dprint.formatText(filePath, fileText, overrideConfig) and, with check,
\* dprint.checkText: override says whether overrideConfig is given
DprintText(p, check, text, override, run) ==
  LET set == SetConfigIfNotSet(p)
      out == IF check
               THEN PluginCheck(run)
               ELSE [ret |-> PluginFormat(text, run).text,
                     threw |-> PluginFormat(text, run).threw]
  IN IF override /\ p.version = 2
       THEN Did(set.plugin, set.trace, AbsentValue, OldPlugin)
     ELSE Did(set.plugin,
              set.trace
                \o (IF override
                      THEN <<"sendString(overrideConfig)",
                             "set_override_config">>
                      ELSE << >>)
                \o <<"sendString(filePath)", "set_file_path",
                      "sendString(fileText)", "format">>
                \o Fetched(check, run.status),
              IF out.threw = "" THEN out.ret ELSE AbsentValue, out.threw)

\* dprint.format(text, overrideConfig) and, with check, dprint.check:
\* setConfigIfNotSet, getSyntheticFileName, then formatText or checkText
DprintCall(p, check, text, override, run) ==
  LET set == SetConfigIfNotSet(p)
      did == DprintText(set.plugin, check, text, override, run)
  IN [did EXCEPT !.trace = set.trace \o <<"get_plugin_info">> \o @]

\* the text of the calls
CallText == "x"

\* the method of the plugin that a call of the backend runs: init runs
\* none, format and check hand their options as overrideConfig
Ran(p, op, run) ==
  IF op = "init" THEN Did(p, << >>, AbsentValue, "")
  ELSE DprintCall(p, op = "check", CallText, TRUE, run)

\* what the call saw of the module: its answer, when format() was called
Answer(did, run) == IF \E i \in DOMAIN did.trace : did.trace[i] = "format"
                      THEN run ELSE NoRun

\* a call leaves the backend w with the instance p registered for family f
Registered(w, f, p, call) ==
  [w EXCEPT !.plugins[f] = p, !.call = call]

\* dprint.getPluginSync(name), or dprint.getPlugin(name) resolved: a new
\* instance of the family's module, registered by `#plugins[key] ??=`, on
\* which the call then runs; a module of another schema version throws
\* in the constructor and nothing is assigned
Acquire(w, op, f, run) ==
  IF ~Compatible(w.version[f])
    THEN [w EXCEPT !.call = Exported(op, f, 0, FALSE, << >>, NoRun,
                                     AbsentValue, Incompatible)]
  ELSE LET p == NewDprint(w.made[f] + 1, w.version[f])
           did == Ran(p, op, run)
       IN [Registered(w, f, did.plugin,
                      [Exported(op, f, p.id, TRUE, did.trace,
                                Answer(did, run), did.ret, did.threw)
                         EXCEPT !.override = op # "init"])
             EXCEPT !.made[f] = @ + 1]

\* a call that finds #plugins[key] set runs on that instance
Reuse(w, op, f, run) ==
  LET did == Ran(w.plugins[f], op, run)
  IN Registered(w, f, did.plugin,
                [Exported(op, f, did.plugin.id, FALSE, did.trace,
                          Answer(did, run), did.ret, did.threw)
                   EXCEPT !.override = op # "init"])

BackendOps == {"format", "check", "init"}

\* the module's answers: the response codes 0, 1 (with the formatted
\* text), 2 (with the error text) and another one
Answers == {Run("granted", 0, status, "y", "failed") : status \in 0..3}

InitPlugins ==
  /\ cfgOpts = EmptyObject
  /\ instOpts = OptionsDefault
  /\ res = NoRes
  /\ lru = NewLRU(0, 0)
  /\ now = 0
  /\ last = NoCall
  /\ ctx = [type |-> "wasm", cache |-> Bool(FALSE), disposed |-> FALSE]
  /\ ghost = NoHistory
  /\ \E version \in [Families -> SchemaVersions] :
       wasm = [plugins |-> [f \in Families |-> NoPlugin],
               version |-> version, made |-> [f \in Families |-> 0],
               pending |-> << >>, call |-> NoExport]
  /\ cmd = << >>

Backend(w) ==
  /\ wasm' = w
  /\ UNCHANGED <<cfgOpts, instOpts, res, lru, now, last, ctx, ghost, cmd>>

\* formatSync, checkSync, initSync: getPluginSync and the call, in one go
CallSync(op, f, run) ==
  /\ wasm.plugins[f] = NoPlugin => wasm.made[f] < MaxInstances
  /\ Backend(IF wasm.plugins[f] = NoPlugin THEN Acquire(wasm, op, f, run)
             ELSE Reuse(wasm, op, f, run))

\* format, check, init up to the await in getPlugin: `#plugins[key] ??=`
\* has found the family without a plugin and dprint.getPlugin is under way
CallBegin(op, f) ==
  /\ wasm.plugins[f] = NoPlugin
  /\ Len(wasm.pending) < MaxPendingCalls
  /\ Backend([wasm EXCEPT !.pending = Append(@, [op |-> op, family |-> f]),
                          !.call = Exported(op \o "Begin", f, 0, FALSE,
                                            << >>, NoRun, AbsentValue, "")])

\* the call resumed: the awaited instance is assigned to #plugins[key],
\* whatever it holds by now, and the call runs on it
CallEnd(i, run) ==
  /\ i \in DOMAIN wasm.pending
  /\ wasm.made[wasm.pending[i].family] < MaxInstances
  /\ \E w \in {[wasm EXCEPT !.pending =
                    SubSeq(@, 1, i - 1) \o SubSeq(@, i + 1, Len(@))]} :
       Backend(Acquire(w, wasm.pending[i].op, wasm.pending[i].family, run))

\* plugin.setConfig(...) called on the plugin of a family
SetConfig(f) ==
  /\ wasm.plugins[f] # NoPlugin
  /\ wasm.plugins[f].setConfig < MaxSetConfig
  /\ \E did \in {DprintSetConfig(wasm.plugins[f])} :
       Backend(Registered(wasm, f,
                 [did.plugin EXCEPT !.setConfig = @ + 1],
                 Exported("setConfig", f, did.plugin.id, FALSE, did.trace,
                          NoRun, AbsentValue, "")))

NextPlugins ==
  \/ \E op \in BackendOps, f \in Families, run \in Answers :
       CallSync(op, f, run)
  \/ \E op \in BackendOps, f \in Families : CallBegin(op, f)
  \/ \E i \in 1..MaxPendingCalls, run \in Answers : CallEnd(i, run)
  \/ \E f \in Families : SetConfig(f)

SpecPlugins == InitPlugins /\ [][NextPlugins]_vars

TextOps == {"formatText", "checkText"}

\* plugin.formatText(...) or plugin.checkText(...) called on the plugin of
\* a family (made first, when the family has none), with an overrideConfig
\* or without
PluginText(op, f, override, run) ==
  /\ Compatible(wasm.version[f])
  /\ \E p \in {IF wasm.plugins[f] = NoPlugin
                  THEN NewDprint(1, wasm.version[f])
                  ELSE wasm.plugins[f]} :
       \E did \in {DprintText(p, op = "checkText", CallText, override, run)} :
         Backend([Registered(wasm, f, did.plugin,
                    [Exported(op, f, p.id, wasm.plugins[f] = NoPlugin,
                              did.trace, Answer(did, run), did.ret,
                              did.threw)
                       EXCEPT !.override = override])
                   EXCEPT !.made[f] = IF wasm.plugins[f] = NoPlugin
                                        THEN 1 ELSE @])

\* formatText and checkText called on the plugins, with setConfig calls
\* in between
NextText ==
  \/ \E op \in TextOps, f \in Families, override \in BOOLEAN,
        run \in Answers : PluginText(op, f, override, run)
  \/ \E f \in Families : SetConfig(f)

SpecText == InitPlugins /\ [][NextText]_vars

-----------------------------------------------------------------------------
(* dprint: getting hold of a plugin's module                               *)

\* the depth of recursion at which the call stack is exhausted
MaxDepth == 3

AcquireOps == {"getPlugin", "getPluginSync"}

\* a call of dprint.getPlugin(name) or dprint.getPluginSync(name): whether
\* ./wasm/<name>.wasm is there (present), dprint.autoUpdate (update), how
\* often the helper (update-plugins.ts) was run, how far the call has got
\* (reading, helper, returned, raised) and the error it threw
Acquiring(op, family, present, update, helpers, stage, threw) ==
  [op |-> op, family |-> family, present |-> present, update |-> update,
   helpers |-> helpers, stage |-> stage, threw |-> threw]

\* a call is under way
Busy ==
  wasm.call.op \in AcquireOps /\ wasm.call.stage \in {"reading", "helper"}

\* dprint.getPlugin(name) / dprint.getPluginSync(name) is called
GetPlugin(op, f, present, update) ==
  /\ ~Busy
  /\ Backend([wasm EXCEPT !.call =
                Acquiring(op, f, present, update, 0, "reading", "")])

\* the try block: the module is read and dprint.create makes the plugin of
\* it. getPluginSync catches the NotFound of Deno.readFileSync and, with
\* autoUpdate, goes on to the helper; getPlugin returns the promise of
\* dprint.create(fetch(url)) without awaiting it, so that its rejection
\* passes the catch block by
Read ==
  /\ Busy
  /\ wasm.call.stage = "reading"
  /\ Backend([wasm EXCEPT
       !.call.stage =
          IF wasm.call.present
            THEN IF Compatible(wasm.version[wasm.call.family])
                   THEN "returned" ELSE "raised"
          ELSE IF wasm.call.op = "getPluginSync" /\ wasm.call.update
            THEN "helper"
          ELSE "raised",
       !.call.threw =
          IF wasm.call.present
            THEN IF Compatible(wasm.version[wasm.call.family])
                   THEN "" ELSE Incompatible
          ELSE IF wasm.call.op = "getPluginSync" /\ wasm.call.update
            THEN ""
          ELSE "NotFound"])

\* the helper is run (outputSync) and exits: without success the call
\* throws; with success it calls dprint.getPluginSync(name) again, with
\* the module persisted or not
Helper(success, persisted) ==
  /\ Busy
  /\ wasm.call.stage = "helper"
  /\ wasm.call.helpers < MaxDepth
  /\ Backend([wasm EXCEPT
       !.call.helpers = @ + 1,
       !.call.present = success /\ persisted,
       !.call.stage = IF success THEN "reading" ELSE "raised",
       !.call.threw = IF success THEN "" ELSE "Failed to update WASM plugins"])

\* the recursion has used up the call stack
Exhausted ==
  /\ Busy
  /\ wasm.call.stage = "helper"
  /\ wasm.call.helpers = MaxDepth
  /\ Backend([wasm EXCEPT !.call.stage = "raised",
                          !.call.threw = "RangeError"])

NextAcquire ==
  \/ \E op \in AcquireOps, f \in Families, present \in BOOLEAN,
        update \in BOOLEAN : GetPlugin(op, f, present, update)
  \/ Read
  \/ \E success \in BOOLEAN, persisted \in BOOLEAN :
       Helper(success, persisted)
  \/ Exhausted

\* a call under way goes on: the read, the helper and the stack all come
\* to an end
SpecAcquire == InitPlugins /\ [][NextAcquire]_vars /\ WF_vars(NextAcquire)

-----------------------------------------------------------------------------
(* dprint: strings across the module boundary                              *)

MaxLength == 4

MaxBufferSize == 3

\* the values of the bytes sent
ByteValues == {97, 98}

\* the encoded texts: the byte strings of at most MaxLength bytes
ByteStrings == UNION {[1..n -> ByteValues] : n \in 0..MaxLength}

BufferSizes == 1..MaxBufferSize

Min(a, b) == IF a < b THEN a ELSE b

\* the module's side of a transfer: the length clear_shared_bytes was given
\* at each of its calls, the shared bytes, and the (index, count) of the
\* buffer fills asked for
Module(cleared, shared, fills) ==
  [cleared |-> cleared, shared |-> shared, fills |-> fills]

RECURSIVE SendLoopFromStart(_, _, _, _)
SendLoopFromStart(encodedText, index, size, module) ==
  IF index < Len(encodedText)
    THEN LET writeCount == Min(Len(encodedText) - index, size)
         IN SendLoopFromStart(encodedText, index + writeCount, size,
              [module EXCEPT !.shared =
                 Append(@, SubSeq(encodedText, 1, writeCount))])
    ELSE module

\* the loop of #sendString: writeCount bytes from index on are copied into
\* the module's buffer and add_to_shared_bytes_from_buffer(writeCount)
\* appends them (kept here chunk by chunk) to the shared bytes
RECURSIVE SendLoop(_, _, _, _)
SendLoop(encodedText, index, size, module) ==
  IF index < Len(encodedText)
    THEN LET writeCount == Min(Len(encodedText) - index, size)
         IN SendLoop(encodedText, index + writeCount, size,
              [module EXCEPT !.shared =
                 Append(@, SubSeq(encodedText, index + 1,
                                  index + writeCount))])
    ELSE module

\* #sendString(text), text encoded: clear_shared_bytes(length), then the
\* loop; size is the module's buffer size
SendString(encodedText, size) ==
  SendLoop(encodedText, 0, size, Module(<<Len(encodedText)>>, << >>, << >>))

\* the loop of #receiveString: set_buffer_with_shared_bytes(index,
\* readCount) has the module copy that part of its shared bytes into the
\* buffer, from where it is copied to buffer[index...]
RECURSIVE ReceiveLoop(_, _, _, _, _)
ReceiveLoop(length, index, size, module, buffer) ==
  IF index < length
    THEN LET readCount == Min(length - index, size)
         IN ReceiveLoop(length, index + readCount, size,
              [module EXCEPT !.fills =
                 Append(@, [index |-> index, count |-> readCount])],
              buffer \o SubSeq(module.shared, index + 1, index + readCount))
    ELSE [module |-> module, buffer |-> buffer]

\* #receiveString(length) from a module whose shared bytes are the string
ReceiveString(shared, size) ==
  ReceiveLoop(Len(shared), 0, size, Module(<< >>, shared, << >>), << >>)

\* a transfer: the bytes to transfer, the module's buffer size, the
\* module's side afterwards and the bytes received
Transfer(op, bytes, size, module, received) ==
  [op |-> op, bytes |-> bytes, size |-> size, module |-> module,
   received |-> received]

Send(encodedText, size) ==
  /\ wasm' = [wasm EXCEPT !.call =
                Transfer("sendString", encodedText, size,
                         SendString(encodedText, size), << >>)]
  /\ UNCHANGED <<cfgOpts, instOpts, res, lru, now, last, ctx, ghost, cmd>>

Receive(shared, size) ==
  /\ \E got \in {ReceiveString(shared, size)} :
       wasm' = [wasm EXCEPT !.call =
                  Transfer("receiveString", shared, size, got.module,
                           got.buffer)]
  /\ UNCHANGED <<cfgOpts, instOpts, res, lru, now, last, ctx, ghost, cmd>>

NextTransfer ==
  \/ \E encodedText \in ByteStrings, size \in BufferSizes :
       Send(encodedText, size)
  \/ \E shared \in ByteStrings, size \in BufferSizes : Receive(shared, size)

SpecTransfer == InitPlugins /\ [][NextTransfer]_vars

-----------------------------------------------------------------------------
(* The process backend: the input on its way to the subprocess             *)

\* const CHUNK_SIZE = 1024 * 8
CHUNK_SIZE == 8192

MaxChunks == 6

\* the byte lengths of the encoded inputs: around the multiples of the
\* chunk size
Lengths ==
  {n \in {k * CHUNK_SIZE + d : k \in 0..MaxChunks, d \in {-1, 0, 1}} : n >= 0}

\* the subprocess of a call, spawned: the key of the call, the length of
\* the encoded input (buffer), the offset of the write loop, the chunks
\* written to stdin (each a subarray of buffer, given by its begin and
\* end), how often stdin was closed, and how far the call has got
Spawned(hash, length) ==
  [hash |-> hash, length |-> length, offset |-> 0, chunks |-> << >>,
   closed |-> 0, stage |-> "writing"]

OffsetUnclamped(offset, length) == offset + CHUNK_SIZE

\* offset = Math.min(offset + CHUNK_SIZE, buffer.length)
Offset(offset, length) == Min(offset + CHUNK_SIZE, length)

InitStdin ==
  /\ cfgOpts = EmptyObject
  /\ instOpts = OptionsDefault
  /\ res = NoRes
  /\ ctx = [type |-> "cli", cache |-> Bool(FALSE), disposed |-> FALSE]
  /\ lru = ContextCache(Bool(FALSE))
  /\ now = 0
  /\ last = NoCall
  /\ ghost = NoHistory
  /\ wasm = NoModules
  /\ cmd = << >>

Subprocess(c) ==
  /\ cmd' = c
  /\ UNCHANGED <<cfgOpts, instOpts, res, lru, now, last, ctx, ghost, wasm>>

\* CommandContext.format, on a cache miss, up to await writer.ready
Spawn(length) ==
  /\ cmd = << >>
  /\ Subprocess(<<Spawned("", length)>>)

\* one turn of the write loop: await writer.write(chunk)
Write(i) ==
  /\ i \in DOMAIN cmd
  /\ cmd[i].stage = "writing"
  /\ cmd[i].offset < cmd[i].length
  /\ \E offset \in {Offset(cmd[i].offset, cmd[i].length)} :
       Subprocess([cmd EXCEPT ![i].offset = offset,
                              ![i].chunks = Append(@, <<cmd[i].offset,
                                                        offset>>)])

\* the loop is left: await writer.ready.then(() => writer.close())
Close(i) ==
  /\ i \in DOMAIN cmd
  /\ cmd[i].stage = "writing"
  /\ ~(cmd[i].offset < cmd[i].length)
  /\ Subprocess([cmd EXCEPT ![i].closed = @ + 1, ![i].stage = "closed"])

\* await cmd.output()
Output(i) ==
  /\ i \in DOMAIN cmd
  /\ cmd[i].stage = "closed"
  /\ Subprocess([cmd EXCEPT ![i].stage = "collected"])

NextStdin ==
  \/ \E length \in Lengths : Spawn(length)
  \/ Write(1)
  \/ Close(1)
  \/ Output(1)

\* the awaited writes, the close and the output of a spawned subprocess
\* all settle
SpecStdin == InitStdin /\ [][NextStdin]_vars /\ WF_vars(NextStdin)

-----------------------------------------------------------------------------
(* The process backend: format calls that overlap                          *)

MaxCalls == 2

\* the texts of the calls and what the subprocess makes of them
OverlapTexts == {"x", "z"}

Completions ==
  {Run("granted", 0, 0, text, "") : text \in {"y", "yy"}}
    \cup {Run("granted", 1, 0, "", "")}

InitOverlap ==
  /\ cfgOpts = EmptyObject
  /\ instOpts = OptionsDefault
  /\ res = NoRes
  /\ \E capacity \in 1..MaxCap :
       /\ ctx = [type |-> "cli", cache |-> CacheConfig(capacity, SmallTTL),
                 disposed |-> FALSE]
       /\ lru = ContextCache(CacheConfig(capacity, SmallTTL))
  /\ now = 0
  /\ last = NoCall
  /\ ghost = NoHistory
  /\ wasm = NoModules
  /\ cmd = << >>

\* CommandContext.format with the permission granted, up to its first
\* await on a miss: the key of the call, this.cache.get(hash), and the
\* subprocess spawned when nothing is cached; a hit returns at once
FormatBegin(input) ==
  /\ Len(cmd) < MaxCalls
  /\ \E hash \in {HashOf(instOpts, input, << >>)} :
       \E g \in {LRUGet(lru, hash, now)} :
         /\ lru' = g.lru
         /\ IF g.ret.hit
              THEN /\ last' = Stamp(Call("format", hash, g, FALSE))
                   /\ cmd' = cmd
              ELSE /\ last' = Stamp(Call("formatBegin", hash, g, FALSE))
                   /\ cmd' = Append(cmd, Spawned(hash, Len(input)))
  /\ UNCHANGED <<cfgOpts, instOpts, res, now, ctx, ghost, wasm>>

\* the call resumed with the output of its subprocess: a non-zero exit
\* code throws, and otherwise this.cache.set(hash, stdout) and stdout is
\* returned
FormatEnd(i, run) ==
  /\ i \in DOMAIN cmd
  /\ cmd' = SubSeq(cmd, 1, i - 1) \o SubSeq(cmd, i + 1, Len(cmd))
  /\ \E w \in {IF run.code # 0
                  THEN Outcome(lru, Miss, << >>, << >>, "Error")
                  ELSE [LRUSet(lru, cmd[i].hash, run.text, now)
                          EXCEPT !.ret = Hit(run.text)]} :
       /\ lru' = w.lru
       /\ last' = Stamp(Call("formatEnd", cmd[i].hash, w, TRUE))
  /\ UNCHANGED <<cfgOpts, instOpts, res, now, ctx, ghost, wasm>>

NextOverlap ==
  \/ \E input \in OverlapTexts : FormatBegin(input)
  \/ \E i \in 1..MaxCalls, run \in Completions : FormatEnd(i, run)

SpecOverlap == InitOverlap /\ [][NextOverlap]_vars

-----------------------------------------------------------------------------
(* Option resolution and hashing on their own                              *)

MaxFields == 2

\* the properties an overrides object is built from: for every
\* output-affecting option a value other than the global default, and for
\* lineWidth and useTabs the default itself and (lineWidth) undefined
Fields ==
  {<<"ext", Str("json")>>, <<"indentWidth", Num(4)>>,
   <<"lineWidth", Num(100)>>, <<"lineWidth", Num(80)>>,
   <<"lineWidth", Undefined>>, <<"proseWrap", Str("never")>>,
   <<"semiColons", Bool(FALSE)>>, <<"singleQuote", Bool(TRUE)>>,
   <<"useTabs", Bool(TRUE)>>, <<"useTabs", Bool(FALSE)>>}

\* the objects of at most n properties
Objects(n) ==
  UNION {{o \in [1..m -> Fields] :
            \A i, j \in 1..m : i # j => o[i][1] # o[j][1]} : m \in 0..n}

\* the rest arguments of a call: no object, one, or two, of at most
\* MaxFields properties in all
ValueLists ==
  {<< >>} \cup {<<o>> : o \in Objects(MaxFields)}
    \cup {<<o, p>> : o \in Objects(1), p \in Objects(MaxFields - 1)}

InitOpts ==
  /\ cfgOpts \in {EmptyObject, WideLines}
  /\ instOpts = ContextOptions(cfgOpts)
  /\ res = NoRes
  /\ lru = NewLRU(0, 0)
  /\ now = 0
  /\ last = NoCall
  /\ ctx = [type |-> "none", cache |-> Undefined, disposed |-> FALSE]
  /\ ghost = NoHistory
  /\ wasm = NoModules
  /\ cmd = << >>

\* context.parseInput(text, values)
Resolve(values) ==
  /\ res' = Resolved("parseInput", "", values,
                     ParseInput(values, instOpts), "")
  /\ UNCHANGED <<cfgOpts, instOpts, lru, now, last, ctx, ghost, wasm, cmd>>

\* context.getCanonicalHash(data, options)
Hash(data, options) ==
  /\ res' = Resolved("hash", data, <<options>>,
                     OptionsMerge(options, instOpts),
                     getCanonicalHash(data, options, instOpts))
  /\ UNCHANGED <<cfgOpts, instOpts, lru, now, last, ctx, ghost, wasm, cmd>>

NextOpts ==
  \/ \E values \in ValueLists : Resolve(values)
  \/ \E data \in Texts, options \in Objects(MaxFields) : Hash(data, options)

SpecOpts == InitOpts /\ [][NextOpts]_vars

-----------------------------------------------------------------------------
(* The cache, on its own or behind a formatter                             *)

Init == InitLRU \/ InitFmt

Next == NextLRU \/ NextFmt

Spec == Init /\ [][Next]_vars

-----------------------------------------------------------------------------
(* Properties of the options and of the key                                *)

\* the value an option has for a call: the caller's when the overrides
\* give one, the instance's otherwise
Effective(overrides, k) ==
  IF IsNullish(ObjGet(overrides, k)) THEN ObjGet(instOpts, k)
  ELSE ObjGet(overrides, k)

SameEffective(o, p) == \A k \in OptionKeys : Effective(o, k) = Effective(p, k)

OutputAffecting ==
  {"ext", "indentWidth", "lineWidth", "useTabs", "semiColons", "singleQuote",
   "proseWrap"}

HashThenHash == res.op = "hash" /\ res'.op = "hash"

\* C2: two getCanonicalHash calls with the same text whose override objects
\* give every option the same effective value (they differ at most in the
\* order of their properties, or in leaving a field out where the other
\* gives the instance default) return the same key.
C2_HashOrderIndependent ==
  [][(HashThenHash /\ res'.text = res.text
        /\ SameEffective(res.values[1], res'.values[1]))
       => res'.hash = res.hash]_vars

\* C2 witness: two override objects with the same properties in a different
\* order were hashed to the same key.
C2_Witness ==
  /\ res.op = "hash"
  /\ Len(res.values[1]) = 2
  /\ res.values[1][1][1] = "useTabs"
  /\ res.values[1][2] = <<"lineWidth", Num(100)>>
  /\ res.hash = getCanonicalHash(res.text,
                  <<res.values[1][2], res.values[1][1]>>, instOpts)

InstanceTier(k) ==
  IF ObjHas(cfgOpts, k) THEN ObjGet(cfgOpts, k) ELSE ObjGet(OptionsDefault, k)

\* C4: the options parseInput resolves for a call with one overrides object
\* are, field by field, the caller's value where the object gives one, else
\* the instance's, else the global default; and all 11 fields are there.
C4_ThreeTierFallback ==
  (res.op = "parseInput" /\ Len(res.values) = 1) =>
    /\ ObjKeys(res.options) = OptionKeys
    /\ Len(res.options) = 11
    /\ \A k \in OptionKeys \ {"cwd"} :
         /\ ~IsNullish(ObjGet(res.options, k))
         /\ ObjGet(res.options, k) =
              (IF ~IsNullish(ObjGet(res.values[1], k))
                 THEN ObjGet(res.values[1], k)
                 ELSE InstanceTier(k))

-----------------------------------------------------------------------------
(* Properties of the cache                                                 *)

\* the step is a call of op on a cache that is not disposed
Calls(op) == last'.op = op /\ ~lru.disposed

\* the entry the call's key has before the call
Found == MapGet(lru.map, last'.key)

\* C5: on a fresh cache of capacity C >= 1, C + 1 set calls with distinct
\* keys and nothing else lead to exactly one onremove call, for the key set
\* first, and to size C.
C5_OverflowEvictsFirst ==
  (ghost.pure /\ lru.capacity >= 1 /\ Len(ghost.sets) = lru.capacity + 1) =>
    (ghost.evicted = <<ghost.sets[1]>> /\ Len(lru.map) = lru.capacity)

\* C6: the cache never holds more entries than its capacity.
C6_SizeWithinCapacity == Len(lru.map) <= lru.capacity

\* C7: get(key) on a live cache that holds key with timestamp t0, called at
\* now: when now - t0 > timeout it returns undefined, the entry is gone,
\* onremove was called once, with that entry, and onrefresh was not called;
\* when now - t0 <= timeout it is a hit.
C7_GetExpires ==
  [][(Calls("get") /\ MapHas(lru.map, last'.key)) =>
       IF now - Found.time > lru.timeout
         THEN /\ last'.ret = Miss
              /\ ~MapHas(lru'.map, last'.key)
              /\ last'.removed = <<Found>>
              /\ last'.refreshed = << >>
         ELSE last'.ret.hit]_vars

\* C7 witness: a get found its entry older than the timeout and removed it.
C7_Witness ==
  /\ last.op = "get"
  /\ last.ret = Miss
  /\ Len(last.removed) = 1
  /\ now - last.removed[1].time > lru.timeout
  /\ ~MapHas(lru.map, last.key)

\* C8: a get that hits returns the stored value, leaves the entry where it
\* is with its timestamp set to the time of the get, calls onrefresh once
\* (with the entry as it was) and onremove not at all, and touches no other
\* entry; and an entry whose last set or hit is at most timeout ago is hit,
\* whenever it was inserted.
C8_GetRefreshes ==
  [][/\ (last'.op = "get" /\ last'.ret.hit) =>
          /\ ~lru.disposed /\ MapHas(lru.map, last'.key)
          /\ last'.ret.value = Found.value
          /\ last'.refreshed = <<Found>>
          /\ last'.removed = << >>
          /\ Len(lru'.map) = Len(lru.map)
          /\ \A i \in DOMAIN lru.map :
               lru'.map[i] = IF lru.map[i].key = last'.key
                               THEN Entry(last'.key, Found.value, now)
                               ELSE lru.map[i]
     /\ (Calls("get") /\ MapHas(lru.map, last'.key)
           /\ now - Found.time <= lru.timeout) => last'.ret.hit]_vars

\* C8 witness: a get hit an entry after every entry of the cache had been
\* set more than the timeout ago: an earlier hit had kept it alive.
C8_Witness ==
  /\ last.op = "get"
  /\ last.ret.hit
  /\ lru.timeout >= 1
  /\ now - ghost.lastSet > lru.timeout
  /\ last.refreshed[1].time > ghost.lastSet
  /\ MapGet(lru.map, last.key).time = now

\* C9: a set that puts a new key into a full cache evicts the entry that
\* was inserted first among those present, and only that one; a get that
\* hits changes neither the entries present nor which of them was
\* inserted first.
C9_EvictsByInsertion ==
  [][/\ (Calls("set") /\ lru.capacity >= 1 /\ Len(lru.map) >= lru.capacity
           /\ ~MapHas(lru.map, last'.key)) =>
          KeysOf(last'.removed) = <<Head(ghost.order)>>
     /\ (last'.op = "get" /\ last'.ret.hit) =>
          (ghost'.order = ghost.order /\ KeysOf(lru'.map) = KeysOf(lru.map))
    ]_vars

\* C11: delete(key) on a live cache: when the key has an entry, the entry
\* is removed, onremove is called once, with that entry, and true is
\* returned; when it has none, the cache is unchanged, no hook is called and
\* false is returned; the other entries stay as they are.
C11_DeleteFrame ==
  [][Calls("delete") =>
       IF MapHas(lru.map, last'.key)
         THEN /\ lru'.map = MapDelete(lru.map, last'.key)
              /\ last'.removed = <<Found>>
              /\ last'.refreshed = << >>
              /\ last'.ret.hit
         ELSE /\ lru' = lru
              /\ last'.removed = << >>
              /\ last'.refreshed = << >>
              /\ ~last'.ret.hit]_vars

\* the entries of a map that are not expired at time t under a timeout
Unexpired(map, timeout, t) ==
  SelectSeq(map, LAMBDA e : t - e.time <= timeout)

\* a map without its first entries, as many as it has beyond a capacity
Trimmed(map, capacity) ==
  IF Len(map) > capacity THEN SubSeq(map, Len(map) - capacity + 1, Len(map))
  ELSE map

\* C12: an assignment to capacity or to timeout on a live cache leaves
\* exactly the entries that are unexpired under the timeout now in force,
\* without the first-inserted ones that exceed the capacity now in force.
C12_SetterPrunes ==
  [][(last'.op \in {"capacity", "timeout"} /\ ~lru.disposed
        /\ last'.threw = "") =>
       lru'.map = Trimmed(Unexpired(lru.map, lru'.timeout, now),
                          lru'.capacity)]_vars

\* C35: with disposals that overlap (asyncDispose or dispose called while
\* an earlier asyncDispose awaits ondispose), ondispose is called at most
\* once in total, and once every disposal has completed the cache holds
\* no entry, whatever was set in between.
C35_OverlapDisposesOnce ==
  /\ ghost.ondispose <= 1
  /\ (lru.disposed /\ lru.pending = 0) => lru.map = << >>

\* C38: set(key, value) on a live cache of capacity >= 1 that holds key
\* leaves key in the cache with the timestamp of the call, leaves every
\* other entry in place and the size as it was, and calls onremove for no
\* other key, full cache or not.
C38_OverwriteEvictsNothing ==
  [][(Calls("set") /\ lru.capacity >= 1 /\ MapHas(lru.map, last'.key)) =>
       /\ MapHas(lru'.map, last'.key)
       /\ MapGet(lru'.map, last'.key).time = now
       /\ Len(lru'.map) = Len(lru.map)
       /\ \A i \in DOMAIN lru.map :
            lru.map[i].key # last'.key => lru.map[i] \in Range(lru'.map)
       /\ \A i \in DOMAIN last'.removed :
            last'.removed[i].key = last'.key]_vars

\* C37: entries() (and keys, values, the default iterator) on a live cache
\* removes the entries that are expired under the timeout and no others:
\* the entries left, which are the ones it yields, are the unexpired ones
\* in their order, and onremove is called for expired entries only; with
\* nothing expired the size is as before, full cache or not.
C37_IterationOnlyExpires ==
  [][Calls("entries") =>
       /\ lru'.map = Unexpired(lru.map, lru.timeout, now)
       /\ \A i \in DOMAIN last'.removed :
            now - last'.removed[i].time > lru.timeout]_vars

DisposeOps == {"dispose", "asyncDispose"}

\* C13: ondispose is called at most once, and once when the cache is
\* disposed; a dispose call, sync or async, first or repeated, leaves the
\* cache disposed and empty and calls onremove for no entry.
C13_DisposeOnce ==
  /\ [](ghost.ondispose <= 1)
  /\ [](lru.disposed => (ghost.ondispose = 1 /\ lru.map = << >>))
  /\ [][last'.op \in DisposeOps =>
          /\ lru'.disposed
          /\ lru'.map = << >>
          /\ last'.removed = << >>
          /\ ghost'.ondispose = 1]_vars

\* C13 witness: a dispose call was followed by another one, and ondispose
\* has been called once.
C13_Witness ==
  /\ last.op \in DisposeOps
  /\ last.n = 1
  /\ lru.disposed
  /\ ghost.ondispose = 1

MutatingOps == {"get", "set", "delete", "clear", "capacity", "timeout"}

\* C14: on a disposed cache get, set, delete, clear and the assignments to
\* capacity and timeout throw a ReferenceError and leave the cache as it
\* is.
C14_DisposedThrows ==
  [][(lru.disposed /\ last'.op \in MutatingOps) =>
       (last'.threw = "ReferenceError" /\ lru' = lru)]_vars

-----------------------------------------------------------------------------
(* Properties of the formatter's caching                                   *)

\* C1: with the cache enabled, a format call (either backend, sync or
\* async) that directly follows a call with the same text and options that
\* returned a string, within the timeout and with run permission granted,
\* returns that same string and does not run the backend.
C1_SecondCallCached ==
  [][(/\ last'.op \in FormatOps
      /\ last'.threw # "PermissionDenied"
      /\ ghost.prev.set
      /\ ghost.prev.key = last'.key
      /\ ghost.prev.ret.hit
      /\ lru.capacity >= 1
      /\ now - ghost.prev.time <= lru.timeout)
       => (last'.ret = ghost.prev.ret /\ ~last'.invoked)]_vars

CacheOff == ctx.cache.t = "boolean" /\ ~ctx.cache.v

\* C10: a cache of capacity 0 is empty; on it set changes nothing and
\* calls no hook, get misses, and every format call that gets as far as
\* the cache runs the backend; and a formatter configured with cache: false
\* has such a cache.
C10_CapacityZeroDisabled ==
  /\ [](lru.capacity = 0 => lru.map = << >>)
  /\ [](CacheOff => lru.capacity = 0)
  /\ [][lru.capacity = 0 =>
          /\ last'.op = "set" =>
               (lru' = lru /\ last'.removed = << >>
                  /\ last'.refreshed = << >>)
          /\ last'.op = "get" => ~last'.ret.hit
          /\ (last'.op \in FormatOps
                /\ last'.threw \notin {"ReferenceError", "PermissionDenied"})
               => last'.invoked]_vars

\* C10 witness: a formatter with cache: false was asked to format the same
\* text twice in a row and ran the backend both times, leaving the cache
\* empty.
C10_Witness ==
  /\ CacheOff
  /\ last.op \in FormatOps
  /\ last.ret.hit
  /\ last.invoked
  /\ last.n = 1
  /\ lru.map = << >>

-----------------------------------------------------------------------------
(* Properties of the formatter's calls                                     *)

FormatterOps == FormatOps \cup CheckOps

\* C15: once the context is disposed it stays disposed, and format,
\* formatSync, check and checkSync on a disposed formatter throw a
\* ReferenceError without having requested the run permission, read or
\* changed the cache, or run the backend.
C15_DisposedFailsFast ==
  [][/\ ctx.disposed => ctx'.disposed
     /\ (ctx.disposed /\ last'.op \in FormatterOps) =>
          /\ last'.threw = "ReferenceError"
          /\ ~last'.fmt.asked
          /\ ~last'.fmt.looked
          /\ ~last'.invoked
          /\ lru' = lru]_vars

\* C15 witness: a format call on a disposed formatter of the process
\* backend threw the ReferenceError.
C15_Witness ==
  /\ ctx.disposed
  /\ ctx.type = "cli"
  /\ last.op \in FormatOps
  /\ last.threw = "ReferenceError"

\* what check has to return when format returns value for input
Verdict(value, input) == Hit(IF value = input THEN True ELSE False)

\* C16: a check call returns true when format, called in the same state
\* with the same text and options and given the same answers by the
\* backend, returns the text, false when it returns another string, and
\* throws when it throws.
C16_CheckIsFormat ==
  [][last'.op \in CheckOps =>
       \A run \in Runs(ctx.type) :
         Seen(run, last'.fmt.asked, last'.invoked) = last'.fmt.run =>
           LET f == ContextFormat(ctx, lru, last'.key, last'.fmt.input,
                                  last'.fmt.resolved, now, run)
           IN IF f.threw # "" THEN last'.threw # ""
              ELSE /\ last'.threw = ""
                   /\ last'.ret = Verdict(f.ret.value, last'.fmt.input)]_vars

\* "Not formatted": the output of a check that found unformatted text
NotFormatted(stream) ==
  stream \in {"error: Found 1 not formatted file", "Not formatted stdin"}

\* the backend, as far as the call got to it, gave an answer: the
\* permission, and exit code 0 or the "Not formatted" output, or
\* response code 0 or 1
Answered(type, run) ==
  IF type = "cli"
    THEN /\ run.permission = "granted"
         /\ \/ run.code = 0
            \/ NotFormatted(run.text)
            \/ NotFormatted(run.message)
    ELSE run.status \in {0, 1}

\* C17: format and formatSync called with check: true on a live formatter
\* whose backend gives an answer return a boolean.
C17_CheckModeReturnsBoolean ==
  [][(last'.op \in FormatOps /\ last'.fmt.check /\ ~ctx.disposed
        /\ Answered(ctx.type, last'.fmt.run)) =>
       (last'.threw = "" /\ last'.ret \in {Hit(True), Hit(False)})]_vars

\* the call is a check: check, checkSync, or format with check: true
IsCheck(call) == call.op \in CheckOps \/ call.fmt.check

\* C18: on the process backend, when the process exits non-zero, a check
\* whose process output has the "Not formatted" marker returns false, and
\* every other call throws the process-failure error.
C18_NotFormattedIsFalse ==
  [][(ctx.type = "cli" /\ last'.op \in FormatterOps /\ last'.invoked
        /\ last'.fmt.run.code # 0) =>
       IF IsCheck(last') /\ (NotFormatted(last'.fmt.run.text)
                               \/ NotFormatted(last'.fmt.run.message))
         THEN last'.threw = "" /\ last'.ret = Hit(False)
         ELSE last'.threw = "Error"]_vars

\* C19: the error thrown for a non-zero exit carries the resolved options
\* and what the process wrote to stdout and to stderr.
C19_ErrorCarriesStreams ==
  [][(ctx.type = "cli" /\ last'.op \in FormatterOps /\ last'.invoked
        /\ last'.fmt.run.code # 0 /\ last'.threw = "Error") =>
       /\ last'.fmt.options
       /\ \A stream \in {last'.fmt.run.text, last'.fmt.run.message} :
            stream # "" => last'.fmt.cause = stream]_vars

\* C21: a format or formatSync call on a live formatter of the process
\* backend requests the run permission, and when it is not granted the
\* call throws PermissionDenied without having read or changed the cache
\* or run the process (formatSync makes its temp file only on the way to
\* running it), whether or not the cache holds the key of the call.
C21_DeniedTouchesNothing ==
  [][(ctx.type = "cli" /\ ~ctx.disposed /\ last'.op \in FormatOps) =>
       /\ last'.fmt.asked
       /\ last'.fmt.run.permission # "granted" =>
            /\ last'.threw = "PermissionDenied"
            /\ ~last'.invoked
            /\ ~last'.fmt.looked
            /\ last'.refreshed = << >>
            /\ last'.removed = << >>
            /\ lru' = lru]_vars

\* C21 witness: a format call was denied the run permission while the
\* cache held the result it asked for.
C21_Witness ==
  /\ ctx.type = "cli"
  /\ last.op \in FormatOps
  /\ ~last.fmt.check
  /\ last.threw = "PermissionDenied"
  /\ MapHas(lru.map, last.key)

\* the rest arguments of the call hold an option value that
\* Options.normalize rejects
HasInvalid(values) ==
  \E i \in DOMAIN values :
    OptionsNormalizeThrows(OptionsMerge(values[i], OptionsDefault)) # ""

ValidationErrors == {"TypeError", "RangeError"}

\* C22: a format, formatSync, check or checkSync call on a live formatter
\* (with the run permission granted) whose options hold an invalid value
\* throws a TypeError or a RangeError and does not run the backend.
C22_InvalidNeverReachesBackend ==
  [][(last'.op \in FormatterOps /\ ~ctx.disposed
        /\ HasInvalid(last'.fmt.values)
        /\ last'.threw # "PermissionDenied") =>
       (last'.threw \in ValidationErrors /\ ~last'.invoked)]_vars

-----------------------------------------------------------------------------
(* Properties of the two backends side by side                             *)

\* what the underlying formatter made of the text, as the backend's run
\* tells it: the text as it is (exit code 0 with the text on stdout,
\* response code 0), another text (exit code 0 with it on stdout, response
\* code 1 with it), or a failure (a non-zero exit code, response code 2);
\* a denied permission and an undocumented response code tell nothing
OutcomeOf(type, run, input) ==
  IF type = "cli"
    THEN IF run.permission # "granted" THEN <<"none">>
         ELSE IF run.code # 0 THEN <<"failure">>
         ELSE IF run.text = input THEN <<"unchanged">>
         ELSE <<"changed", run.text>>
    ELSE IF run.status = 0 THEN <<"unchanged">>
         ELSE IF run.status = 1
           THEN IF run.text = input THEN <<"unchanged">>
                ELSE <<"changed", run.text>>
         ELSE IF run.status = 2 THEN <<"failure">>
         ELSE <<"none">>

OtherType(type) == IF type = "cli" THEN "wasm" ELSE "cli"

\* the same call on a formatter of the other backend, with the same
\* configuration and nothing cached
OtherDoes(op, hash, input, options, run) ==
  LET context == [ctx EXCEPT !.type = OtherType(ctx.type)]
  IN IF op \in CheckOps
       THEN FormatterCheck(context, ContextCache(ctx.cache), instOpts, hash,
                           input, options, now, run)
       ELSE FormatterFormat(context, ContextCache(ctx.cache), instOpts, hash,
                            input, options, now, run)

C32_LastWriteWins ==
  [][(last'.op = "formatEnd" /\ last'.threw = "" /\ lru.capacity >= 1) =>
       /\ MapHas(lru'.map, last'.key)
       /\ MapGet(lru'.map, last'.key).value = last'.ret.value
       /\ \A i \in DOMAIN lru.map :
            (lru.map[i].key # last'.key
               /\ ~MapHas(lru'.map, lru.map[i].key)) =>
              Cardinality({j \in DOMAIN lru.map :
                             lru.map[j].key # last'.key}) >= lru.capacity
    ]_vars

\* what the backend answers for a text that is formatted already: the
\* module response code 0; the process exit code 0, with the text on
\* stdout unless it was run with --check
Passes(type, run, input, check) ==
  IF type = "wasm" THEN run.status = 0
  ELSE run.code = 0 /\ (check \/ run.text = input)

\* C31: when a format call has returned a string s, the next format or
\* formatSync call with s and the same options, for which the backend, if
\* it is run, finds s formatted, and the cache, if it holds the call's
\* key, holds s under it, returns true with the check option set and s
\* itself without it, from the backend or from the cache.
C31_OutputPassesCheck ==
  [][(/\ last'.op \in FormatOps
      /\ ~ctx.disposed
      /\ ghost.prev.set
      /\ ghost.prev.ret.hit
      /\ ghost.prev.ret.value = last'.fmt.input
      /\ MapHas(lru.map, last'.key) =>
           MapGet(lru.map, last'.key).value = last'.fmt.input
      /\ last'.threw # "PermissionDenied"
      /\ last'.invoked =>
           \E run \in Runs(ctx.type) :
             /\ Seen(run, last'.fmt.asked, TRUE) = last'.fmt.run
             /\ Passes(ctx.type, run, last'.fmt.input, last'.fmt.check)) =>
       /\ last'.threw = ""
       /\ last'.ret.value = IF last'.fmt.check THEN True
                            ELSE last'.fmt.input]_vars

\* C29: a format or check call on a live formatter with nothing cached,
\* and the same call on a formatter of the other backend for which the
\* underlying formatter has the same outcome (changed text, unchanged, or
\* failure), either return the same value or both throw.
C29_BackendsAgree ==
  [][(last'.op \in FormatterOps /\ ~ctx.disposed /\ lru.map = << >>) =>
       \A mine \in Runs(ctx.type), other \in Runs(OtherType(ctx.type)) :
         (/\ Seen(mine, last'.fmt.asked, last'.invoked) = last'.fmt.run
          /\ OutcomeOf(ctx.type, mine, last'.fmt.input) # <<"none">>
          /\ OutcomeOf(OtherType(ctx.type), other, last'.fmt.input)
               = OutcomeOf(ctx.type, mine, last'.fmt.input)) =>
           LET did == OtherDoes(last'.op, last'.key, last'.fmt.input,
                                last'.fmt.resolved, other)
           IN IF last'.threw # "" THEN did.threw # ""
              ELSE did.threw = "" /\ did.ret = last'.ret]_vars

-----------------------------------------------------------------------------
(* Properties of the cache configuration                                   *)

\* the default of CacheConfig.ttl: 1000 * 60 * 30
DefaultTTL == 1800000

\* the ttl of the configuration Context.cache builds: that of the cache
\* object, and the default for cache: true and for an object without one
CacheTTL(cache) ==
  IF cache.t = "object" THEN OrElse(ObjGet(cache.v, "ttl"), DefaultTTL)
  ELSE DefaultTTL

\* C30: a format call on a live formatter that gets as far as the cache
\* and finds a non-empty entry of its key, written or last read at t0, is served
\* from the cache (the backend does not run) when now <= t0 + ttl, and runs
\* the backend again when now > t0 + ttl, where ttl is the cache
\* configuration's ttl (1,800,000 by default and for cache: true).
C30_TTLIsMaxAge ==
  [][(/\ last'.op \in FormatOps
      /\ ~ctx.disposed
      /\ last'.fmt.looked
      /\ MapHas(lru.map, last'.key)
      /\ MapGet(lru.map, last'.key).value # "") =>
       IF now - MapGet(lru.map, last'.key).time <= CacheTTL(ctx.cache)
         THEN ~last'.invoked
         ELSE last'.invoked]_vars

-----------------------------------------------------------------------------
(* Properties of the module backend                                        *)

\* the exports of the module that the call called
Called(call) == Range(call.trace)

\* C33: the chunks written to stdin are consecutive subarrays of the
\* encoded input from offset 0 on, none empty and none longer than
\* CHUNK_SIZE (so none is written for an empty input); stdin is closed at
\* most once, only when the chunks written make up the whole input, and
\* has been closed once when the output is collected; and every
\* subprocess spawned gets to the collection of its output.
C33_StdinChunks ==
  /\ [](\A i \in DOMAIN cmd :
          /\ \A j \in DOMAIN cmd[i].chunks :
               /\ cmd[i].chunks[j][1] =
                    IF j = 1 THEN 0 ELSE cmd[i].chunks[j - 1][2]
               /\ cmd[i].chunks[j][2] > cmd[i].chunks[j][1]
               /\ cmd[i].chunks[j][2] - cmd[i].chunks[j][1] <= CHUNK_SIZE
               /\ cmd[i].chunks[j][2] <= cmd[i].length
          /\ cmd[i].closed = IF cmd[i].stage = "writing" THEN 0 ELSE 1
          /\ cmd[i].stage # "writing" =>
               IF cmd[i].chunks = << >> THEN cmd[i].length = 0
               ELSE cmd[i].chunks[Len(cmd[i].chunks)][2] = cmd[i].length)
  /\ (cmd # << >>) ~> (cmd # << >> /\ cmd[1].stage = "collected")

\* C33 witness: the output is collected of a subprocess that was written
\* several chunks, the last one shorter than CHUNK_SIZE.
C33_Witness ==
  /\ cmd # << >>
  /\ cmd[1].stage = "collected"
  /\ Len(cmd[1].chunks) >= 2
  /\ cmd[1].length - cmd[1].chunks[Len(cmd[1].chunks)][1] < CHUNK_SIZE

\* C23: a formatText call that gets the module's response code returns
\* the original text for 0, the text fetched from the module for 1, throws
\* the fetched error text for 2 and throws for any other code; a checkText
\* call returns true for 0, false for 1, and throws in the same way.
C23_StatusTotal ==
  (wasm.call.op \in {"format", "check"} /\ "format" \in Called(wasm.call)) =>
    CASE wasm.call.run.status = 0 ->
           /\ wasm.call.threw = ""
           /\ wasm.call.ret = IF wasm.call.op = "check" THEN True ELSE CallText
      [] wasm.call.run.status = 1 ->
           /\ wasm.call.threw = ""
           /\ IF wasm.call.op = "check" THEN wasm.call.ret = False
              ELSE /\ wasm.call.ret = wasm.call.run.text
                   /\ "get_formatted_text" \in Called(wasm.call)
      [] wasm.call.run.status = 2 ->
           /\ wasm.call.threw = wasm.call.run.message
           /\ "get_error_text" \in Called(wasm.call)
           /\ wasm.call.ret = AbsentValue
      [] OTHER ->
           /\ wasm.call.threw # ""
           /\ wasm.call.ret = AbsentValue

\* C23 witness: a format call got a response code that is none of 0, 1, 2
\* and threw.
C23_Witness ==
  /\ wasm.call.op = "format"
  /\ "format" \in Called(wasm.call)
  /\ wasm.call.run.status \notin {0, 1, 2}
  /\ wasm.call.threw = "Unexpected response code"

\* C24: a format, formatSync, check or checkSync call on the module
\* backend whose module answers with response code 2 or with an
\* undocumented code throws; it returns neither a string nor a boolean.
C24_ModuleFailureRaises ==
  [][(ctx.type = "wasm" /\ last'.op \in FormatterOps /\ last'.invoked
        /\ last'.fmt.run.status \notin {0, 1}) =>
       (last'.threw # "" /\ ~last'.ret.hit)]_vars

\* the places of an export in the trace of a call
Places(call, export) == {i \in DOMAIN call.trace : call.trace[i] = export}

\* the dprint instances that #plugins holds
Plugins == {wasm.plugins[f] : f \in DOMAIN wasm.plugins} \ {NoPlugin}

\* C26: a dprint instance is sent the global and the plugin configuration
\* together, once on its own account (by the first format or check call,
\* before the module's format() is called) unless setConfig was called
\* first, and otherwise only by explicit setConfig calls; no format() is
\* called on an instance that has not been sent them.
C26_HandshakeOnce ==
  /\ \A p \in Plugins :
       /\ p.global = p.plugin
       /\ p.global \in {p.setConfig, p.setConfig + 1}
       /\ p.configSet <=> p.global >= 1
  /\ wasm.call.op \in BackendOps =>
       /\ Cardinality(Places(wasm.call, "set_global_config")) <= 1
       /\ Places(wasm.call, "format") # {} =>
            /\ wasm.plugins[wasm.call.family].id = wasm.call.plugin
            /\ wasm.plugins[wasm.call.family].global >= 1
            /\ \A i \in Places(wasm.call, "set_global_config")
                       \cup Places(wasm.call, "set_plugin_config"),
                  j \in Places(wasm.call, "format") : i < j
       /\ (wasm.call.created /\ wasm.call.trace # << >>) =>
            /\ Cardinality(Places(wasm.call, "set_global_config")) = 1
            /\ Cardinality(Places(wasm.call, "set_plugin_config")) = 1

\* C26 witness: a format call ran on an instance made by an earlier call
\* and sent no configuration; the instance has been sent it once.
C26_Witness ==
  /\ wasm.call.op = "format"
  /\ ~wasm.call.created
  /\ Places(wasm.call, "format") # {}
  /\ Places(wasm.call, "set_global_config") = {}
  /\ wasm.plugins[wasm.call.family].global = 1
  /\ wasm.plugins[wasm.call.family].setConfig = 0

\* what a call told the module after the configuration handshake
Body(call) ==
  SelectSeq(call.trace,
            LAMBDA e : e \notin {"set_global_config", "set_plugin_config"})

\* C34: a formatText or checkText call sends the override config when it
\* is given one and only then, then the file path, then the content, then
\* calls the module's format(), then fetches the formatted text (response
\* code 1, formatText only) or the error text (response code 2) and
\* nothing otherwise; given an override config on a module of schema
\* version 2 it throws and has sent none of them.
C34_TextCallOrder ==
  wasm.call.op \in TextOps =>
    IF wasm.call.override /\ wasm.plugins[wasm.call.family].version = 2
      THEN wasm.call.threw = OldPlugin /\ Body(wasm.call) = << >>
      ELSE Body(wasm.call) =
             (IF wasm.call.override
                THEN <<"sendString(overrideConfig)", "set_override_config">>
                ELSE << >>)
             \o <<"sendString(filePath)", "set_file_path",
                   "sendString(fileText)", "format">>
             \o (IF wasm.call.run.status = 2 THEN <<"get_error_text">>
                 ELSE IF wasm.call.run.status = 1
                           /\ wasm.call.op = "formatText"
                   THEN <<"get_formatted_text">>
                 ELSE << >>)

\* C34 witness: a formatText call with an override config on a module of
\* schema version 2 threw.
C34_Witness ==
  /\ wasm.call.op = "formatText"
  /\ wasm.call.override
  /\ wasm.plugins[wasm.call.family].version = 2
  /\ wasm.call.threw = OldPlugin

\* C36: a getPlugin or getPluginSync call runs the helper at most once;
\* it throws when the helper exits without success; and it comes to an
\* end, returning a plugin or throwing, also when the module is still
\* missing after the helper has exited with success.
C36_AcquisitionTerminates ==
  /\ [](wasm.call.op \in AcquireOps => wasm.call.helpers <= 1)
  /\ [][(Busy /\ wasm.call.stage = "helper"
           /\ wasm'.call.helpers = wasm.call.helpers + 1
           /\ wasm'.call.stage # "reading") =>
          (wasm'.call.stage = "raised" /\ wasm'.call.threw # "")]_vars
  /\ Busy ~> ~Busy


\* every call for the family runs on that instance.
C27_OnePluginPerFamily ==
  /\ \A f \in DOMAIN wasm.made : wasm.made[f] <= 1
  /\ (wasm.call.op \in BackendOps /\ wasm.call.plugin # 0) =>
       wasm.call.plugin = 1

\* C28: a dprint instance is made only of a module of schema version 2 or
\* 3; a call that has to make one of a module of another version throws
\* the incompatible-plugin error, and leaves #plugins as it was, with the
\* plugins of the other families and with none for its own family.
C28_IncompatibleIsLocal ==
  /\ [](\A f \in DOMAIN wasm.plugins :
          IF wasm.version[f] \in {2, 3}
            THEN wasm.plugins[f] # NoPlugin =>
                   wasm.plugins[f].version = wasm.version[f]
            ELSE wasm.plugins[f] = NoPlugin /\ wasm.made[f] = 0)
  /\ []((wasm.call.op \in BackendOps /\ wasm.call.created)
          => wasm.version[wasm.call.family] \in {2, 3})
  /\ []((wasm.call.op \in BackendOps /\ wasm.call.plugin = 0)
          => (/\ wasm.version[wasm.call.family] \notin {2, 3}
              /\ wasm.call.threw = Incompatible
              /\ wasm.call.trace = << >>))
  /\ [][wasm'.call.threw = Incompatible =>
          (wasm'.plugins = wasm.plugins /\ wasm'.made = wasm.made)]_vars

\* C28 witness: a call failed to make the plugin of its family while
\* another family had its plugin, which is still there.
C28_Witness ==
  /\ wasm.call.threw = Incompatible
  /\ wasm.plugins[wasm.call.family] = NoPlugin
  /\ \E f \in DOMAIN wasm.plugins : wasm.plugins[f] # NoPlugin

RECURSIVE Flatten(_)
Flatten(chunks) ==
  IF chunks = << >> THEN << >> ELSE Head(chunks) \o Flatten(Tail(chunks))

\* ceil(length / size)
Ceil(length, size) == (length + size - 1) \div size

\* C25: sending L bytes to a module of buffer size B >= 1 announces L
\* once and then appends ceil(L / B) chunks of 1 to B bytes whose
\* concatenation is the L bytes; receiving L bytes asks for ceil(L / B)
\* buffer fills, at the offsets 0, B, 2B, ..., of 1 to B bytes each, and
\* yields the L bytes.
C25_TransferExact ==
  /\ wasm.call.op = "sendString" =>
       /\ wasm.call.module.cleared = <<Len(wasm.call.bytes)>>
       /\ Flatten(wasm.call.module.shared) = wasm.call.bytes
       /\ Len(wasm.call.module.shared)
            = Ceil(Len(wasm.call.bytes), wasm.call.size)
       /\ \A i \in DOMAIN wasm.call.module.shared :
            Len(wasm.call.module.shared[i]) \in 1..wasm.call.size
  /\ wasm.call.op = "receiveString" =>
       /\ wasm.call.received = wasm.call.bytes
       /\ Len(wasm.call.module.fills)
            = Ceil(Len(wasm.call.bytes), wasm.call.size)
       /\ \A i \in DOMAIN wasm.call.module.fills :
            /\ wasm.call.module.fills[i].index = (i - 1) * wasm.call.size
            /\ wasm.call.module.fills[i].count \in 1..wasm.call.size

\* C25 witness: a string longer than the buffer, and not a multiple of it,
\* was sent in more than one chunk, the last one shorter.
C25_Witness ==
  /\ wasm.call.op = "sendString"
  /\ Len(wasm.call.bytes) > wasm.call.size
  /\ wasm.call.size > 1
  /\ Len(wasm.call.module.shared) >= 2
  /\ Len(wasm.call.module.shared[Len(wasm.call.module.shared)])
       < wasm.call.size
  /\ wasm.call.bytes[1] # wasm.call.bytes[wasm.call.size + 1]

-----------------------------------------------------------------------------
(* Properties of what the cache holds                                      *)

\* the keys with their values
Stored(map) == {<<map[i].key, map[i].value>> : i \in DOMAIN map}

\* the backend succeeded: exit code 0, or response code 0 or 1
Succeeded(type, run) ==
  IF type = "cli" THEN run.code = 0 ELSE run.status \in {0, 1}

\* what the backend gave for the text
BackendOutput(type, input, run) ==
  IF type = "cli" THEN run.text ELSE PluginFormat(input, run).text

\* a value gets into the cache only as the output of a backend run that
\* succeeded, under the key of the call that ran it
OnlyOutputsStored ==
  Stored(lru'.map) \ Stored(lru.map) \subseteq
    (IF last'.invoked /\ Succeeded(ctx.type, last'.fmt.run)
       THEN {<<last'.key,
               BackendOutput(ctx.type, last'.fmt.input, last'.fmt.run)>>}
       ELSE {})

Failed == last'.invoked /\ ~Succeeded(ctx.type, last'.fmt.run)

\* C20 as stated: values get into the cache only as outputs of successful
\* backend runs for their key, and a call whose backend run fails leaves
\* the keys and values of the cache as they are.
C20_FailureLeavesCache ==
  [][/\ OnlyOutputsStored
     /\ Failed => Stored(lru'.map) = Stored(lru.map)]_vars

\* C20 amended: values get into the cache only as outputs of successful
\* backend runs for their key, and a call whose backend run fails adds
\* nothing and removes nothing but the entry of its own key, when the
\* lookup finds it expired.
C20_FailureLeavesFresh ==
  [][/\ OnlyOutputsStored
     /\ Failed =>
          /\ Stored(lru'.map) \subseteq Stored(lru.map)
          /\ \A i \in DOMAIN lru.map :
               (lru.map[i].key # last'.key
                  \/ now - lru.map[i].time <= lru.timeout) =>
                 <<lru.map[i].key, lru.map[i].value>> \in Stored(lru'.map)
    ]_vars

\* C20 witness: a call found the entry of its key expired, removed it, ran
\* the backend, and the backend failed.
C20_Witness ==
  /\ last.op \in FormatterOps
  /\ last.invoked
  /\ ~Succeeded(ctx.type, last.fmt.run)
  /\ Len(last.removed) = 1
  /\ last.removed[1].key = last.key

=============================================================================
